------------------------- MODULE EtcdLeave_proofs -------------------------
(***************************************************************************)
(* Proofs about EtcdLeave and LeaveQueue, for every value of the constants. *)
(***************************************************************************)
EXTENDS LeaveQueue, TLAPS

USE DEF NoID, TargetID, OtherID

\* The values an EtcdMember takes when it is written whole.
LEMMA MemberValues ==
  /\ NoMember \in EtcdMember /\ ~NoMember.exists
  /\ NoMember.id = NoID /\ NoMember.joined = ""
  /\ OwnMember \in EtcdMember /\ OwnMember.exists
  /\ OwnMember.id = TargetID /\ OwnMember.joined = "True"
  /\ \A p \in BOOLEAN : /\ OthersMember(p) \in EtcdMember
                        /\ OthersMember(p).exists
                        /\ OthersMember(p).id = OtherID
                        /\ OthersMember(p).joined = "True"
  BY DEF EtcdMember, NoMember, OwnMember, OthersMember

\* A budget that is not used up can be drawn from.
LEMMA Decrement == \A n \in Nat : n > 0 => n - 1 \in Nat
  OBVIOUS

\* The initial states satisfy the invariant: nothing is requested yet, and a
\* `left' entry of an earlier eviction is not this cycle's.
LEMMA InitLeaveInv == Init => LeaveInv
<1> SUFFICES ASSUME Init PROVE LeaveInv
  OBVIOUS
<1> USE EtcdLeaveAssumption DEF Init
<1>1. TypeMachine    BY DEF TypeMachine
<1>2. facts \in Fact BY DEF InitFacts
<1>3. TypePass       BY <1>2 DEF TypePass, EtcdMember, NoMember, Clocks, Why
<1>4. member \in {"none", "joined"} /\ (facts.registered => member = "joined")
  OBVIOUS
<1>5. \/ em = NoMember /\ ~(member = "joined" /\ facts.memberAPI)
      \/ em = OwnMember /\ member = "joined"
      \/ /\ \E p \in BOOLEAN : em = OthersMember(p)
         /\ facts.sharedName /\ ~(member = "joined" /\ facts.memberAPI)
  OBVIOUS
<1>6. em \in EtcdMember
  BY <1>5, MemberValues
<1>7. TypeWorkload   BY <1>4, <1>6 DEF TypeWorkload
<1> HIDE DEF Init
<1>8. EtcdMemberInv
  BY <1>4, <1>5, MemberValues DEF EtcdMemberInv
<1> USE DEF Init
<1>9. ResponderInv /\ AckInv
  BY DEF ResponderInv, AckInv
<1>10. RequestInv
  BY <1>4 DEF RequestInv
<1>11. HookInv
  BY DEF HookInv
<1> QED
  BY <1>1, <1>3, <1>7, <1>8, <1>9, <1>10, <1>11 DEF LeaveInv, TypeOK

\* Every step of the four actors keeps the invariant.
LEMMA NextLeaveInv == LeaveInv /\ [Next]_vars => LeaveInv'
<1> SUFFICES ASSUME LeaveInv, [Next]_vars PROVE LeaveInv'
  OBVIOUS
<1> USE EtcdLeaveAssumption
    DEF LeaveInv, TypeOK, stamps, kcpVars, passVars, nodeVars, workload
<1>1. CASE ReleaseNotK0s
  <2> USE <1>1 DEF ReleaseNotK0s, Sweep, removeEtcdLeaveHook
  <2>1. TypeMachine'  BY DEF TypeMachine
  <2>2. TypePass'     BY DEF TypePass, Why
  <2>3. TypeWorkload' BY DEF TypeWorkload
  <2>4. (ResponderInv /\ AckInv)'       BY DEF ResponderInv, AckInv, RequestInv
  <2>5. (EtcdMemberInv /\ RequestInv)'  BY DEF EtcdMemberInv, RequestInv
  <2>6. HookInv'      BY DEF HookInv
  <2> QED             BY <2>1, <2>2, <2>3, <2>4, <2>5, <2>6
<1>2. CASE ConnectAnswered
  <2> USE <1>2 DEF ConnectAnswered, MayConnect, Sweep
  <2>1. TypeMachine'  BY DEF TypeMachine
  <2>2. TypePass'     BY DEF TypePass, TypeWorkload
  <2>3. TypeWorkload' BY DEF TypeWorkload
  <2>4. (ResponderInv /\ AckInv)'       BY DEF ResponderInv, AckInv, RequestInv
  <2>5. (EtcdMemberInv /\ RequestInv)'  BY DEF EtcdMemberInv, RequestInv
  <2>6. HookInv'      BY DEF HookInv
  <2> QED             BY <2>1, <2>2, <2>3, <2>4, <2>5, <2>6
<1>3. CASE ConnectUnanswered
  <2> USE <1>3 DEF ConnectUnanswered, MayConnect, Sweep, leaveUnreachable,
                   delegateUnanswered, abandonMemberLeave,
                   removeEtcdLeaveHook, EndPass
  <2>1. TypeMachine'  BY DEF TypeMachine
  <2>2. TypePass'     BY DEF TypePass, Why
  <2>3. TypeWorkload' BY DEF TypeWorkload
  <2>0. pc' = "idle" /\ UNCHANGED <<requested, facts, emSeen, cm, em, member, node, marker>>
    OBVIOUS
  <2>4. (ResponderInv /\ AckInv)'       BY <2>0 DEF ResponderInv, AckInv
  <2>5. (EtcdMemberInv /\ RequestInv)'  BY <2>0 DEF EtcdMemberInv, RequestInv
  <2>6. HookInv'      BY DEF HookInv
  <2> QED             BY <2>1, <2>2, <2>3, <2>4, <2>5, <2>6
<1>4. CASE FirstRequest
  <2> USE <1>4 DEF FirstRequest
  <2>1. TypeMachine'  BY DEF TypeMachine
  <2>2. TypePass'     BY DEF TypePass
  <2>3. TypeWorkload' BY DEF TypeWorkload
  <2>4. (ResponderInv /\ AckInv)'       BY DEF ResponderInv, AckInv, RequestInv
  <2>5. (EtcdMemberInv /\ RequestInv)'  BY DEF EtcdMemberInv, RequestInv
  <2>6. HookInv'      BY DEF HookInv
  <2> QED             BY <2>1, <2>2, <2>3, <2>4, <2>5, <2>6
<1>5. CASE InspectUnreadable
  <2> USE <1>5 DEF InspectUnreadable, Inspecting, leaveUnreachable,
                   abandonMemberLeave, removeEtcdLeaveHook, EndPass
  <2>1. TypeMachine'  BY DEF TypeMachine
  <2>2. TypePass'     BY DEF TypePass, Why
  <2>3. TypeWorkload' BY DEF TypeWorkload
  <2>4. (ResponderInv /\ AckInv)'       BY DEF ResponderInv, AckInv, RequestInv
  <2>5. (EtcdMemberInv /\ RequestInv)'  BY DEF EtcdMemberInv, RequestInv
  <2>6. HookInv'      BY DEF HookInv
  <2> QED             BY <2>1, <2>2, <2>3, <2>4, <2>5, <2>6
<1>6. CASE InspectNotOurs
  <2> USE <1>6 DEF InspectNotOurs, Inspecting, abandonMemberLeave,
                   removeEtcdLeaveHook
  <2>1. TypeMachine'  BY DEF TypeMachine
  <2>2. TypePass'     BY DEF TypePass, Why
  <2>3. TypeWorkload' BY DEF TypeWorkload
  <2>4. (ResponderInv /\ AckInv)'       BY DEF ResponderInv, AckInv, RequestInv
  <2>5. (EtcdMemberInv /\ RequestInv)'  BY DEF EtcdMemberInv, RequestInv
  <2>6. HookInv'      BY DEF HookInv
  <2> QED             BY <2>1, <2>2, <2>3, <2>4, <2>5, <2>6
<1>7. CASE InspectNotFound
  <2> USE <1>7 DEF InspectNotFound, Inspecting, removeEtcdLeaveHook
  <2>1. TypeMachine'  BY DEF TypeMachine
  <2>2. TypePass'     BY DEF TypePass, Why
  <2>3. TypeWorkload' BY DEF TypeWorkload
  <2>4. (ResponderInv /\ AckInv)'       BY DEF ResponderInv, AckInv, RequestInv
  <2>5. (EtcdMemberInv /\ RequestInv)'  BY DEF EtcdMemberInv, RequestInv
  <2>6. HookInv'      BY DEF HookInv
  <2> QED             BY <2>1, <2>2, <2>3, <2>4, <2>5, <2>6
<1>8. CASE InspectNotJoined
  <2> USE <1>8 DEF InspectNotJoined, Inspecting, removeEtcdLeaveHook
  <2>1. TypeMachine'  BY DEF TypeMachine
  <2>2. TypePass'     BY DEF TypePass, Why
  <2>3. TypeWorkload' BY DEF TypeWorkload
  <2>4. (ResponderInv /\ AckInv)'       BY DEF ResponderInv, AckInv, RequestInv
  <2>5. (EtcdMemberInv /\ RequestInv)'  BY DEF EtcdMemberInv, RequestInv
  <2>6. HookInv'      BY DEF HookInv
  <2> QED             BY <2>1, <2>2, <2>3, <2>4, <2>5, <2>6
<1>9. CASE InspectProceed
  <2> USE <1>9 DEF InspectProceed, Inspecting
  <2>1. TypeMachine'  BY DEF TypeMachine, TypeWorkload, EtcdMember
  <2>2. TypePass'     BY DEF TypePass
  <2>3. TypeWorkload' BY DEF TypeWorkload
  <2>4. (ResponderInv /\ AckInv)'       BY DEF ResponderInv, AckInv, RequestInv
  <2>5. (EtcdMemberInv /\ RequestInv)'  BY DEF EtcdMemberInv, RequestInv
  <2>6. HookInv'      BY DEF HookInv
  <2> QED             BY <2>1, <2>2, <2>3, <2>4, <2>5, <2>6
<1>10. CASE ensureLeaveRequestedForced
  <2> USE <1>10 DEF ensureLeaveRequestedForced
  <2>1. TypeMachine'  BY DEF TypeMachine
  <2>2. TypePass'     BY DEF TypePass
  <2>3. TypeWorkload' BY DEF TypeWorkload
  <2>4. (ResponderInv /\ AckInv)'       BY DEF ResponderInv, AckInv, RequestInv
  <2>5. (EtcdMemberInv /\ RequestInv)'  BY DEF EtcdMemberInv, RequestInv
  <2>6. HookInv'      BY DEF HookInv
  <2> QED             BY <2>1, <2>2, <2>3, <2>4, <2>5, <2>6
<1>11. CASE stampLeaveRequestedAt
  <2> USE <1>11 DEF stampLeaveRequestedAt, EndPass
  <2>1. TypeMachine'  BY DEF TypeMachine
  <2>2. TypePass'     BY DEF TypePass
  <2>3. TypeWorkload' BY DEF TypeWorkload
  <2>4. (ResponderInv /\ AckInv)'       BY DEF ResponderInv, AckInv, RequestInv
  <2>5. (EtcdMemberInv /\ RequestInv)'  BY DEF EtcdMemberInv, RequestInv
  <2>6. HookInv'      BY DEF HookInv
  <2> QED             BY <2>1, <2>2, <2>3, <2>4, <2>5, <2>6
<1>12. CASE ReleaseOnAck
  <2> USE <1>12 DEF ReleaseOnAck, removeEtcdLeaveHook
  <2>1. TypeMachine'  BY DEF TypeMachine
  <2>2. TypePass'     BY DEF TypePass, Why
  <2>3. TypeWorkload' BY DEF TypeWorkload
  <2>4. (ResponderInv /\ AckInv)'       BY DEF ResponderInv, AckInv, RequestInv
  <2>5. (EtcdMemberInv /\ RequestInv)'  BY DEF EtcdMemberInv, RequestInv
  <2>6. HookInv'      BY DEF HookInv
  <2> QED             BY <2>1, <2>2, <2>3, <2>4, <2>5, <2>6
<1>13. CASE ReleaseOnStatus
  <2> USE <1>13 DEF ReleaseOnStatus, removeEtcdLeaveHook
  <2>1. TypeMachine'  BY DEF TypeMachine
  <2>2. TypePass'     BY DEF TypePass, Why
  <2>3. TypeWorkload' BY DEF TypeWorkload
  <2>4. (ResponderInv /\ AckInv)'       BY DEF ResponderInv, AckInv, RequestInv
  <2>5. (EtcdMemberInv /\ RequestInv)'  BY DEF EtcdMemberInv, RequestInv
  <2>6. HookInv'      BY DEF HookInv
  <2> QED             BY <2>1, <2>2, <2>3, <2>4, <2>5, <2>6
<1>14. CASE ensureLeaveRequested
  <2> USE <1>14 DEF ensureLeaveRequested, NotGone, EndPass
  <2>1. TypeMachine'  BY DEF TypeMachine
  <2>2. TypePass'     BY DEF TypePass
  <2>3. TypeWorkload' BY DEF TypeWorkload
  <2>4. (ResponderInv /\ AckInv)'       BY DEF ResponderInv, AckInv, RequestInv
  <2>5. (EtcdMemberInv /\ RequestInv)'  BY DEF EtcdMemberInv, RequestInv
  <2>6. HookInv'      BY DEF HookInv
  <2> QED             BY <2>1, <2>2, <2>3, <2>4, <2>5, <2>6
<1>15. CASE DelegateNotOurs
  <2> USE <1>15 DEF DelegateNotOurs, Delegating, NotGone, abandonMemberLeave,
                    removeEtcdLeaveHook
  <2>1. TypeMachine'  BY DEF TypeMachine
  <2>2. TypePass'     BY DEF TypePass, Why
  <2>3. TypeWorkload' BY DEF TypeWorkload
  <2>4. (ResponderInv /\ AckInv)'       BY DEF ResponderInv, AckInv, RequestInv
  <2>5. (EtcdMemberInv /\ RequestInv)'  BY DEF EtcdMemberInv, RequestInv
  <2>6. HookInv'      BY DEF HookInv
  <2> QED             BY <2>1, <2>2, <2>3, <2>4, <2>5, <2>6
<1>16. CASE DelegateUnreadable
  <2> USE <1>16 DEF DelegateUnreadable, Delegating, NotGone,
                    delegateUnanswered, abandonMemberLeave,
                    removeEtcdLeaveHook, EndPass
  <2>1. TypeMachine'  BY DEF TypeMachine
  <2>2. TypePass'     BY DEF TypePass, Why
  <2>3. TypeWorkload' BY DEF TypeWorkload
  <2>4. (ResponderInv /\ AckInv)'       BY DEF ResponderInv, AckInv, RequestInv
  <2>5. (EtcdMemberInv /\ RequestInv)'  BY DEF EtcdMemberInv, RequestInv
  <2>6. HookInv'      BY DEF HookInv
  <2> QED             BY <2>1, <2>2, <2>3, <2>4, <2>5, <2>6
<1>17. CASE DelegateInspect
  <2> USE <1>17 DEF DelegateInspect, Delegating, NotGone
  <2>1. TypeMachine'  BY DEF TypeMachine, TypeWorkload, EtcdMember
  <2>2. TypePass'     BY DEF TypePass, TypeWorkload
  <2>3. TypeWorkload' BY DEF TypeWorkload
  <2>4. (ResponderInv /\ AckInv)'       BY DEF ResponderInv, AckInv, RequestInv
  <2>5. (EtcdMemberInv /\ RequestInv)'  BY DEF EtcdMemberInv, RequestInv
  <2>6. HookInv'      BY DEF HookInv
  <2> QED             BY <2>1, <2>2, <2>3, <2>4, <2>5, <2>6
<1>18. CASE DelegateLeave
  <2> USE <1>18 DEF DelegateLeave, LockHolds, removeEtcdLeaveHook,
                    abandonMemberLeave, EndPass
  <2>1. TypeMachine'  BY DEF TypeMachine
  <2>2. TypePass'     BY DEF TypePass, Why
  <2>3. TypeWorkload' BY DEF TypeWorkload, EtcdMember
  <2>4. (ResponderInv /\ AckInv)'       BY DEF ResponderInv, AckInv, RequestInv
  <2>5. (EtcdMemberInv /\ RequestInv)'  BY DEF EtcdMemberInv, RequestInv, TypeWorkload, EtcdMember
  <2>6. HookInv'      BY DEF HookInv
  <2> QED             BY <2>1, <2>2, <2>3, <2>4, <2>5, <2>6
<1>19. CASE DelegateConflict
  <2> USE <1>19 DEF DelegateConflict, LockHolds, abandonMemberLeave,
                    removeEtcdLeaveHook, EndPass
  <2>1. TypeMachine'  BY DEF TypeMachine
  <2>2. TypePass'     BY DEF TypePass, Why
  <2>3. TypeWorkload' BY DEF TypeWorkload
  <2>4. (ResponderInv /\ AckInv)'       BY DEF ResponderInv, AckInv, RequestInv
  <2>5. (EtcdMemberInv /\ RequestInv)'  BY DEF EtcdMemberInv, RequestInv
  <2>6. HookInv'      BY DEF HookInv
  <2> QED             BY <2>1, <2>2, <2>3, <2>4, <2>5, <2>6
<1>21. CASE PassFails
  <2> USE <1>21 DEF PassFails, EndPass
  <2>1. TypeMachine'  BY DEF TypeMachine
  <2>0. faults' \in Nat
    <3>1. faults \in Nat /\ faults > 0  BY DEF TypePass
    <3> QED  BY <3>1, Decrement
  <2>2. TypePass'     BY <2>0 DEF TypePass
  <2>3. TypeWorkload' BY DEF TypeWorkload
  <2>4. (ResponderInv /\ AckInv)'       BY DEF ResponderInv, AckInv, RequestInv
  <2>5. (EtcdMemberInv /\ RequestInv)'  BY DEF EtcdMemberInv, RequestInv
  <2>6. HookInv'      BY DEF HookInv
  <2> QED             BY <2>1, <2>2, <2>3, <2>4, <2>5, <2>6
<1>22. CASE ConnectForeign
  <2> USE <1>22 DEF ConnectForeign, MayConnect, Sweep
  <2>1. TypeMachine'  BY DEF TypeMachine
  <2>2. TypePass'     BY DEF TypePass
  <2>3. TypeWorkload' BY DEF TypeWorkload
  <2>4. (ResponderInv /\ AckInv)'       BY DEF ResponderInv, AckInv, RequestInv
  <2>5. (EtcdMemberInv /\ RequestInv)'  BY DEF EtcdMemberInv, RequestInv
  <2>6. HookInv'      BY DEF HookInv
  <2> QED             BY <2>1, <2>2, <2>3, <2>4, <2>5, <2>6
<1>23. CASE FreezeChanges
  <2> USE <1>23 DEF FreezeChanges
  <2>1. TypeMachine'  BY DEF TypeMachine
  <2>0. faults' \in Nat
    <3>1. faults \in Nat /\ faults > 0  BY DEF TypePass
    <3> QED  BY <3>1, Decrement
  <2>2. TypePass'     BY <2>0 DEF TypePass
  <2>3. TypeWorkload' BY DEF TypeWorkload
  <2>4. (ResponderInv /\ AckInv)'       BY DEF ResponderInv, AckInv, RequestInv
  <2>5. (EtcdMemberInv /\ RequestInv)'  BY DEF EtcdMemberInv, RequestInv
  <2>6. HookInv'      BY DEF HookInv
  <2> QED             BY <2>1, <2>2, <2>3, <2>4, <2>5, <2>6
<1>24. CASE KCPDeleted
  <2> USE <1>24 DEF KCPDeleted
  <2>1. TypeMachine'  BY DEF TypeMachine
  <2>2. TypePass'     BY DEF TypePass
  <2>3. TypeWorkload' BY DEF TypeWorkload
  <2>4. (ResponderInv /\ AckInv)'       BY DEF ResponderInv, AckInv, RequestInv
  <2>5. (EtcdMemberInv /\ RequestInv)'  BY DEF EtcdMemberInv, RequestInv
  <2>6. HookInv'      BY DEF HookInv
  <2> QED             BY <2>1, <2>2, <2>3, <2>4, <2>5, <2>6
<1>25. CASE stripEtcdLeaveHooks
  <2> USE <1>25 DEF stripEtcdLeaveHooks
  <2>1. TypeMachine'  BY DEF TypeMachine
  <2>2. TypePass'     BY DEF TypePass, Why
  <2>3. TypeWorkload' BY DEF TypeWorkload
  <2>4. (ResponderInv /\ AckInv)'       BY DEF ResponderInv, AckInv, RequestInv
  <2>5. (EtcdMemberInv /\ RequestInv)'  BY DEF EtcdMemberInv, RequestInv
  <2>6. HookInv'      BY DEF HookInv
  <2> QED             BY <2>1, <2>2, <2>3, <2>4, <2>5, <2>6
<1>26. CASE NodeAdds
  <2> USE <1>26 DEF NodeAdds
  <2>1. TypeMachine'  BY DEF TypeMachine
  <2>2. TypePass'     BY DEF TypePass
  <2>3. TypeWorkload' BY DEF TypeWorkload
  <2>4. (ResponderInv /\ AckInv)'       BY DEF ResponderInv, AckInv, RequestInv
  <2>5. (EtcdMemberInv /\ RequestInv)'  BY DEF EtcdMemberInv, RequestInv
  <2>6. HookInv'      BY DEF HookInv
  <2> QED             BY <2>1, <2>2, <2>3, <2>4, <2>5, <2>6
<1>27. CASE NodeStarts
  <2> USE <1>27 DEF NodeStarts
  <2>1. TypeMachine'  BY DEF TypeMachine
  <2>2. TypePass'     BY DEF TypePass
  <2>3. TypeWorkload' BY DEF TypeWorkload, EtcdMember
  <2>4. (ResponderInv /\ AckInv)'       BY DEF ResponderInv, AckInv, RequestInv
  <2>5. (EtcdMemberInv /\ RequestInv)'  BY DEF EtcdMemberInv, RequestInv, TypeWorkload, EtcdMember
  <2>6. HookInv'      BY DEF HookInv
  <2> QED             BY <2>1, <2>2, <2>3, <2>4, <2>5, <2>6
<1>28. CASE NodePoll
  <2> USE <1>28 DEF NodePoll
  <2>1. TypeMachine'  BY DEF TypeMachine
  <2>2. TypePass'     BY DEF TypePass
  <2>3. TypeWorkload' BY DEF TypeWorkload
  <2>4. (ResponderInv /\ AckInv)'       BY DEF ResponderInv, AckInv, RequestInv
  <2>5. (EtcdMemberInv /\ RequestInv)'  BY DEF EtcdMemberInv, RequestInv
  <2>6. HookInv'      BY DEF HookInv
  <2> QED             BY <2>1, <2>2, <2>3, <2>4, <2>5, <2>6
<1>29. CASE NodeLeaves
  <2> USE <1>29 DEF NodeLeaves
  <2>1. TypeMachine'  BY DEF TypeMachine
  <2>2. TypePass'     BY DEF TypePass
  <2>3. TypeWorkload' BY DEF TypeWorkload
  <2>4. (ResponderInv /\ AckInv)'       BY DEF ResponderInv, AckInv, RequestInv
  <2>5. (EtcdMemberInv /\ RequestInv)'  BY DEF EtcdMemberInv, RequestInv
  <2>6. HookInv'      BY DEF HookInv
  <2> QED             BY <2>1, <2>2, <2>3, <2>4, <2>5, <2>6
<1>30. CASE NodeLeaveFails
  <2> USE <1>30 DEF NodeLeaveFails
  <2>1. TypeMachine'  BY DEF TypeMachine
  <2>2. TypePass'     BY DEF TypePass
  <2>3. TypeWorkload' BY DEF TypeWorkload
  <2>4. (ResponderInv /\ AckInv)'       BY DEF ResponderInv, AckInv, RequestInv
  <2>5. (EtcdMemberInv /\ RequestInv)'  BY DEF EtcdMemberInv, RequestInv
  <2>6. HookInv'      BY DEF HookInv
  <2> QED             BY <2>1, <2>2, <2>3, <2>4, <2>5, <2>6
<1>31. CASE NodeMarks
  <2> USE <1>31 DEF NodeMarks
  <2>1. TypeMachine'  BY DEF TypeMachine
  <2>2. TypePass'     BY DEF TypePass
  <2>3. TypeWorkload' BY DEF TypeWorkload
  <2>4. (ResponderInv /\ AckInv)'       BY DEF ResponderInv, AckInv, RequestInv
  <2>5. (EtcdMemberInv /\ RequestInv)'  BY DEF EtcdMemberInv, RequestInv
  <2>6. HookInv'      BY DEF HookInv
  <2> QED             BY <2>1, <2>2, <2>3, <2>4, <2>5, <2>6
<1>32. CASE NodeAcks
  <2> USE <1>32 DEF NodeAcks
  <2>1. TypeMachine'  BY DEF TypeMachine
  <2>2. TypePass'     BY DEF TypePass
  <2>3. TypeWorkload' BY DEF TypeWorkload
  <2>4. (ResponderInv /\ AckInv)'       BY DEF ResponderInv, AckInv, RequestInv
  <2>5. (EtcdMemberInv /\ RequestInv)'  BY DEF EtcdMemberInv, RequestInv
  <2>6. HookInv'      BY DEF HookInv
  <2> QED             BY <2>1, <2>2, <2>3, <2>4, <2>5, <2>6
<1>33. CASE NodeStops
  <2> USE <1>33 DEF NodeStops
  <2>1. TypeMachine'  BY DEF TypeMachine
  <2>2. TypePass'     BY DEF TypePass
  <2>3. TypeWorkload' BY DEF TypeWorkload
  <2>4. (ResponderInv /\ AckInv)'       BY DEF ResponderInv, AckInv, RequestInv
  <2>5. (EtcdMemberInv /\ RequestInv)'  BY DEF EtcdMemberInv, RequestInv
  <2>6. HookInv'      BY DEF HookInv
  <2> QED             BY <2>1, <2>2, <2>3, <2>4, <2>5, <2>6
<1>34. CASE K0sReports
  <2> USE <1>34 DEF K0sReports
  <2>1. TypeMachine'  BY DEF TypeMachine
  <2>2. TypePass'     BY DEF TypePass
  <2>3. TypeWorkload' BY DEF TypeWorkload, EtcdMember
  <2>4. (ResponderInv /\ AckInv)'       BY DEF ResponderInv, AckInv, RequestInv
  <2>5. (EtcdMemberInv /\ RequestInv)'  BY DEF EtcdMemberInv, RequestInv, TypeWorkload, EtcdMember
  <2>6. HookInv'      BY DEF HookInv
  <2> QED             BY <2>1, <2>2, <2>3, <2>4, <2>5, <2>6
<1>35. CASE K0sRemoves
  <2> USE <1>35 DEF K0sRemoves
  <2>1. TypeMachine'  BY DEF TypeMachine
  <2>2. TypePass'     BY DEF TypePass
  <2>3. TypeWorkload' BY DEF TypeWorkload, EtcdMember
  <2>4. (ResponderInv /\ AckInv)'       BY DEF ResponderInv, AckInv, RequestInv
  <2>5. (EtcdMemberInv /\ RequestInv)'  BY DEF EtcdMemberInv, RequestInv, TypeWorkload, EtcdMember
  <2>6. HookInv'      BY DEF HookInv
  <2> QED             BY <2>1, <2>2, <2>3, <2>4, <2>5, <2>6
<1>36. CASE NameTaken
  <2> USE <1>36 DEF NameTaken, OthersMember
  <2> PICK peer \in BOOLEAN : em' = OthersMember(peer)
    OBVIOUS
  <2>0. em' \in EtcdMember  BY DEF EtcdMember
  <2>1. TypeMachine'  BY DEF TypeMachine
  <2>2. TypePass'     BY DEF TypePass
  <2>3. TypeWorkload' BY <2>0 DEF TypeWorkload
  <2>4. (ResponderInv /\ AckInv)'       BY DEF ResponderInv, AckInv, RequestInv
  <2>5. (EtcdMemberInv /\ RequestInv)'  BY DEF EtcdMemberInv, RequestInv
  <2>6. HookInv'      BY DEF HookInv
  <2> QED             BY <2>1, <2>2, <2>3, <2>4, <2>5, <2>6
<1>37. CASE DrainDone
  <2> USE <1>37 DEF DrainDone
  <2>1. TypeMachine'  BY DEF TypeMachine
  <2>2. TypePass'     BY DEF TypePass
  <2>3. TypeWorkload' BY DEF TypeWorkload
  <2>4. (ResponderInv /\ AckInv)'       BY DEF ResponderInv, AckInv, RequestInv
  <2>5. (EtcdMemberInv /\ RequestInv)'  BY DEF EtcdMemberInv, RequestInv
  <2>6. HookInv'      BY DEF HookInv
  <2> QED             BY <2>1, <2>2, <2>3, <2>4, <2>5, <2>6
<1>38. CASE Terminate
  <2> USE <1>38 DEF Terminate
  <2>1. TypeMachine'  BY DEF TypeMachine
  <2>2. TypePass'     BY DEF TypePass
  <2>3. TypeWorkload' BY DEF TypeWorkload
  <2>4. (ResponderInv /\ AckInv)'       BY DEF ResponderInv, AckInv, RequestInv
  <2>5. (EtcdMemberInv /\ RequestInv)'  BY DEF EtcdMemberInv, RequestInv
  <2>6. HookInv'      BY DEF HookInv
  <2> QED             BY <2>1, <2>2, <2>3, <2>4, <2>5, <2>6
<1>39. CASE \E c \in Clocks : Expire(c)
  <2> USE <1>39 DEF Expire
  <2>0. UNCHANGED <<pc, requested, facts, emSeen, em, member>>
    OBVIOUS
  <2>1. TypeMachine'  BY DEF TypeMachine
  <2>2. TypePass'     BY DEF TypePass
  <2>3. TypeWorkload' BY DEF TypeWorkload
  <2>4. (ResponderInv /\ AckInv)'       BY DEF ResponderInv, AckInv
  <2>5. (EtcdMemberInv /\ RequestInv)'  
    BY <2>0 DEF EtcdMemberInv, RequestInv
  <2>6. HookInv'      BY DEF HookInv
  <2> QED             BY <2>1, <2>2, <2>3, <2>4, <2>5, <2>6
<1>40. CASE UNCHANGED vars
  <2> USE <1>40 DEF vars
  <2>1. TypeMachine'  BY DEF TypeMachine
  <2>2. TypePass'     BY DEF TypePass
  <2>3. TypeWorkload' BY DEF TypeWorkload
  <2>4. (ResponderInv /\ AckInv)'       BY DEF ResponderInv, AckInv
  <2>5. (EtcdMemberInv /\ RequestInv)'  BY DEF EtcdMemberInv, RequestInv
  <2>6. HookInv'      BY DEF HookInv
  <2> QED             BY <2>1, <2>2, <2>3, <2>4, <2>5, <2>6
<1> QED
  BY <1>1, <1>2, <1>3, <1>4, <1>5, <1>6, <1>7, <1>8, <1>9, <1>10, <1>11,
     <1>12, <1>13, <1>14, <1>15, <1>16, <1>17, <1>18, <1>19, <1>21,
     <1>22, <1>23, <1>24, <1>25, <1>26, <1>27, <1>28, <1>29, <1>30, <1>31,
     <1>32, <1>33, <1>34, <1>35, <1>36, <1>37, <1>38, <1>39, <1>40 DEF Next, Pass, KCP, Node, K0s, CAPI

\* The inductive invariant holds in every reachable state (it includes TypeOK).
THEOREM LeaveInvariant == Spec => []LeaveInv
  BY InitLeaveInv, NextLeaveInv, PTL DEF Spec
(***************************************************************************)
(* What one step does to the part of the state the promise is about.       *)
(***************************************************************************)
Quiet == /\ UNCHANGED <<hook, released, member>>
         /\ phase' = "gone" <=> phase = "gone"

Released == /\ hook /\ ~hook' /\ phase # "gone"
            /\ UNCHANGED <<member, phase>>
            /\ \/ released' \in {"abandoned", "teardown", "notK0s"}
               \/ released' \in SilentReleases /\ member # "joined"
               \/ released' = "status" /\ ~ReporterReliable

Joins == /\ \/ member = "none" /\ member' = "unstarted"
            \/ member = "unstarted" /\ member' = "joined"
         /\ phase # "gone" /\ UNCHANGED <<hook, released, phase>>

Leaves == /\ member = "joined" /\ member' = "removed"
          /\ UNCHANGED <<hook, released, phase>>

Terminates == /\ ~hook /\ phase = "preTerminate" /\ phase' = "gone"
              /\ UNCHANGED <<hook, released, member>>

\* Every step is of one of these kinds; in particular each silent release finds
\* the member out of etcd, or rests on a report the node never made.
LEMMA StepKind ==
  ASSUME LeaveInv, [Next]_vars
  PROVE  Quiet \/ Released \/ Joins \/ Leaves \/ Terminates
<1> USE DEF LeaveInv, HookInv, SilentReleases, stamps, kcpVars, passVars,
            nodeVars, workload
<1>1. CASE ReleaseNotK0s
  <2> Released
    BY <1>1 DEF ReleaseNotK0s, Sweep, removeEtcdLeaveHook, Released
  <2> QED  OBVIOUS
<1>2. CASE ConnectAnswered
  <2> Quiet
    BY <1>2 DEF ConnectAnswered, MayConnect, Sweep, Quiet
  <2> QED  OBVIOUS
<1>3. CASE ConnectUnanswered
  <2> Quiet \/ Released
    BY <1>3 DEF ConnectUnanswered, MayConnect, Sweep, leaveUnreachable,
                delegateUnanswered, abandonMemberLeave, removeEtcdLeaveHook,
                EndPass, Quiet, Released
  <2> QED  OBVIOUS
<1>4. CASE FirstRequest
  <2> Quiet
    BY <1>4 DEF FirstRequest, Quiet
  <2> QED  OBVIOUS
<1>5. CASE InspectUnreadable
  <2> Quiet \/ Released
    BY <1>5 DEF InspectUnreadable, Inspecting, leaveUnreachable,
                abandonMemberLeave, removeEtcdLeaveHook, EndPass, Quiet,
                Released
  <2> QED  OBVIOUS
<1>6. CASE InspectNotOurs
  <2> Released
    BY <1>6 DEF InspectNotOurs, Inspecting, abandonMemberLeave,
                removeEtcdLeaveHook, Released
  <2> QED  OBVIOUS
<1>7. CASE InspectNotFound
  <2> Released
    BY <1>7 DEF InspectNotFound, Inspecting, removeEtcdLeaveHook,
                EtcdMemberInv, Released
  <2> QED  OBVIOUS
<1>8. CASE InspectNotJoined
  <2> Released
    BY <1>8 DEF InspectNotJoined, Inspecting, removeEtcdLeaveHook,
                EtcdMemberInv, Released
  <2> QED  OBVIOUS
<1>9. CASE InspectProceed
  <2> Quiet
    BY <1>9 DEF InspectProceed, Inspecting, Quiet
  <2> QED  OBVIOUS
<1>10. CASE ensureLeaveRequestedForced
  <2> Quiet
    BY <1>10 DEF ensureLeaveRequestedForced, Quiet
  <2> QED  OBVIOUS
<1>11. CASE stampLeaveRequestedAt
  <2> Quiet
    BY <1>11 DEF stampLeaveRequestedAt, EndPass, Quiet
  <2> QED  OBVIOUS
<1>12. CASE ReleaseOnAck
  <2> Released
    BY <1>12 DEF ReleaseOnAck, removeEtcdLeaveHook, AckInv, Released
  <2> QED  OBVIOUS
<1>13. CASE ReleaseOnStatus
  <2> Released
    BY <1>13 DEF ReleaseOnStatus, removeEtcdLeaveHook, RequestInv, InitFacts,
                 Released
  <2> QED  OBVIOUS
<1>14. CASE ensureLeaveRequested
  <2> Quiet
    BY <1>14 DEF ensureLeaveRequested, NotGone, EndPass, Quiet
  <2> QED  OBVIOUS
<1>15. CASE DelegateNotOurs
  <2> Released
    BY <1>15 DEF DelegateNotOurs, Delegating, NotGone, abandonMemberLeave,
                 removeEtcdLeaveHook, Released
  <2> QED  OBVIOUS
<1>16. CASE DelegateUnreadable
  <2> Quiet \/ Released
    BY <1>16 DEF DelegateUnreadable, Delegating, NotGone, delegateUnanswered,
                 abandonMemberLeave, removeEtcdLeaveHook, EndPass, Quiet,
                 Released
  <2> QED  OBVIOUS
<1>17. CASE DelegateInspect
  <2> Quiet
    BY <1>17 DEF DelegateInspect, Delegating, NotGone, Quiet
  <2> QED  OBVIOUS
<1>18. CASE DelegateLeave
  <2> Quiet \/ Released
    BY <1>18 DEF DelegateLeave, LockHolds, removeEtcdLeaveHook,
                 abandonMemberLeave, EndPass, RequestInv, Quiet, Released
  <2> QED  OBVIOUS
<1>19. CASE DelegateConflict
  <2> Quiet \/ Released
    BY <1>19 DEF DelegateConflict, LockHolds, abandonMemberLeave,
                 removeEtcdLeaveHook, EndPass, Quiet, Released
  <2> QED  OBVIOUS
<1>21. CASE PassFails
  <2> Quiet
    BY <1>21 DEF PassFails, EndPass, Quiet
  <2> QED  OBVIOUS
<1>22. CASE ConnectForeign
  <2> Quiet
    BY <1>22 DEF ConnectForeign, MayConnect, Sweep, Quiet
  <2> QED  OBVIOUS
<1>23. CASE FreezeChanges
  <2> Quiet
    BY <1>23 DEF FreezeChanges, Quiet
  <2> QED  OBVIOUS
<1>24. CASE KCPDeleted
  <2> Quiet
    BY <1>24 DEF KCPDeleted, Quiet
  <2> QED  OBVIOUS
<1>25. CASE stripEtcdLeaveHooks
  <2> Released
    BY <1>25 DEF stripEtcdLeaveHooks, Released
  <2> QED  OBVIOUS
<1>26. CASE NodeAdds
  <2> Joins
    BY <1>26 DEF NodeAdds, Joins
  <2> QED  OBVIOUS
<1>27. CASE NodeStarts
  <2> Joins
    BY <1>27 DEF NodeStarts, Joins
  <2> QED  OBVIOUS
<1>28. CASE NodePoll
  <2> Quiet
    BY <1>28 DEF NodePoll, Quiet
  <2> QED  OBVIOUS
<1>29. CASE NodeLeaves
  <2> Leaves
    BY <1>29 DEF NodeLeaves, Leaves
  <2> QED  OBVIOUS
<1>30. CASE NodeLeaveFails
  <2> Quiet \/ Leaves
    BY <1>30 DEF NodeLeaveFails, Quiet, Leaves
  <2> QED  OBVIOUS
<1>31. CASE NodeMarks
  <2> Quiet
    BY <1>31 DEF NodeMarks, Quiet
  <2> QED  OBVIOUS
<1>32. CASE NodeAcks
  <2> Quiet
    BY <1>32 DEF NodeAcks, Quiet
  <2> QED  OBVIOUS
<1>33. CASE NodeStops
  <2> Quiet
    BY <1>33 DEF NodeStops, Quiet
  <2> QED  OBVIOUS
<1>34. CASE K0sReports
  <2> Quiet
    BY <1>34 DEF K0sReports, Quiet
  <2> QED  OBVIOUS
<1>35. CASE K0sRemoves
  <2> Quiet \/ Leaves
    BY <1>35 DEF K0sRemoves, EtcdMemberInv, TypeOK, TypeWorkload, Quiet,
                 Leaves
  <2> QED  OBVIOUS
<1>36. CASE NameTaken
  <2> Quiet
    BY <1>36 DEF NameTaken, OthersMember, Quiet
  <2> QED  OBVIOUS
<1>37. CASE DrainDone
  <2> Quiet
    BY <1>37 DEF DrainDone, Quiet
  <2> QED  OBVIOUS
<1>38. CASE Terminate
  <2> Terminates
    BY <1>38 DEF Terminate, Terminates
  <2> QED  OBVIOUS
<1>39. CASE \E c \in Clocks : Expire(c)
  <2> Quiet
    BY <1>39 DEF Expire, Quiet
  <2> QED  OBVIOUS
<1>40. CASE UNCHANGED vars
  <2> Quiet
    BY <1>40 DEF vars, Quiet
  <2> QED  OBVIOUS
<1> QED
  BY <1>1, <1>2, <1>3, <1>4, <1>5, <1>6, <1>7, <1>8, <1>9, <1>10, <1>11,
     <1>12, <1>13, <1>14, <1>15, <1>16, <1>17, <1>18, <1>19, <1>21,
     <1>22, <1>23, <1>24, <1>25, <1>26, <1>27, <1>28, <1>29, <1>30, <1>31,
     <1>32, <1>33, <1>34, <1>35, <1>36, <1>37, <1>38, <1>39, <1>40 DEF Next, Pass, KCP, Node, K0s, CAPI

\* A hook removed without a warning belongs to a member that is not in etcd
\* (reconcileMemberLeave), for any number of faults, provided a registered
\* node has reported itself in the etcd-status Secret.
THEOREM SilentReleaseSafe ==
  ASSUME ReporterReliable
  PROVE  Spec => SilentReleaseMeansLeft
<1>1. LeaveInv /\ [Next]_vars =>
        [hook /\ ~hook' /\ released' \in SilentReleases => member # "joined"]_vars
  <2> SUFFICES ASSUME LeaveInv, [Next]_vars, hook, ~hook',
                      released' \in SilentReleases
               PROVE  member # "joined"
    OBVIOUS
  <2> QED
    BY StepKind DEF Quiet, Released, Joins, Leaves, Terminates, SilentReleases
<1> QED
  BY <1>1, LeaveInvariant, PTL DEF Spec, SilentReleaseMeansLeft

\* The handshake implements SafeEviction: one release, silent only when the
\* member is out of etcd, and no termination before it. Where reports may be
\* missing, a release on an absent one (ReleaseOnStatus) counts as a warned one.
THEOREM EvictionRefinement == Spec => ImplementsSafeEviction
<1> USE DEF Membership, Warned
<1>1. Init => Eviction!Init
  <2> SUFFICES ASSUME Init PROVE Eviction!Init
    OBVIOUS
  <2>1. member \in {"none", "joined"} /\ hook = TRUE /\ phase = "draining"
        /\ released = "held"
    BY DEF Init
  <2> QED  BY <2>1 DEF Eviction!Init
<1>2. LeaveInv /\ [Next]_vars => [Eviction!Next]_(Eviction!vars)
  <2> SUFFICES ASSUME LeaveInv, [Next]_vars
               PROVE  [Eviction!Next]_(Eviction!vars)
    OBVIOUS
  <2>0. /\ hook \in BOOLEAN
        /\ member \in {"none", "unstarted", "joined", "removed"}
        /\ hook => ~Warned
    BY DEF LeaveInv, TypeOK, TypeMachine, TypeWorkload, HookInv
  <2>1. CASE Quiet
    BY <2>1 DEF Quiet, Eviction!vars
  <2>2. CASE Released
    <3>1. CASE Warned'
      BY <2>0, <2>2, <3>1
      DEF Released, Eviction!Next, Eviction!ReleaseWarned
    <3>2. CASE released' \in SilentReleases /\ member # "joined" /\ ~Warned'
      BY <2>0, <2>2, <3>2
      DEF Released, SilentReleases, Eviction!Next, Eviction!ReleaseSilently
    <3> QED  BY <2>2, <3>1, <3>2 DEF Released
  <2>3. CASE Joins
    BY <2>3 DEF Joins, Eviction!Next, Eviction!Join, Eviction!vars
  <2>4. CASE Leaves
    BY <2>4 DEF Leaves, Eviction!Next, Eviction!Leave
  <2>5. CASE Terminates
    BY <2>5 DEF Terminates, Eviction!Next, Eviction!Terminate
  <2> QED  BY <2>1, <2>2, <2>3, <2>4, <2>5, StepKind
<1> QED
  BY <1>1, <1>2, LeaveInvariant, PTL DEF Spec, ImplementsSafeEviction, Eviction!Spec

(***************************************************************************)
(* The order of an eviction: the facts behind NoLeaveDuringDrain and       *)
(* OrderedWrites.                                                          *)
(***************************************************************************)

\* None of the values written whole asks for a leave.
LEMMA NoLeaveYet ==
  /\ ~NoMember.leave /\ ~OwnMember.leave
  /\ \A p \in BOOLEAN : ~OthersMember(p).leave
  /\ ~[exists |-> TRUE, id |-> NoID, leave |-> FALSE, joined |-> "", peerOther |-> FALSE].leave
  BY DEF NoMember, OwnMember, OthersMember

\* Nothing starts during the drain; a forced write only precedes the request;
\* a patch is made for the member that was recorded.
OrderInv ==
  /\ phase = "draining" => ~requested /\ ~delegated /\ ~em.leave /\ pc = "idle"
  /\ pc \in {"force", "stamp"} => ~requested
  /\ pc = "patch" => memberID = emSeen.id /\ memberID # NoID /\ ~emSeen.peerOther

\* What a step may do to an ack and to spec.leave.
OrderedStep ==
  /\ requested /\ cm = "left" => cm' = "left"
  /\ em'.leave /\ ~em.leave => em'.id = memberID /\ memberID # NoID /\ ~em'.peerOther

\* Every step keeps the order, and is an ordered step.
LEMMA NextOrderInv == LeaveInv /\ OrderInv /\ [Next]_vars => OrderInv' /\ OrderedStep
<1> SUFFICES ASSUME LeaveInv, OrderInv, [Next]_vars PROVE OrderInv' /\ OrderedStep
  OBVIOUS
<1>0. em \in EtcdMember /\ emSeen \in EtcdMember /\ phase \in {"draining", "preTerminate", "gone"}
  BY DEF LeaveInv, TypeOK, TypeMachine, TypePass, TypeWorkload
<1> USE <1>0 DEF OrderInv, OrderedStep, EtcdMember, stamps, kcpVars, passVars, nodeVars, workload
<1>1. CASE ReleaseNotK0s
  BY <1>1 DEF ReleaseNotK0s, Sweep, removeEtcdLeaveHook
<1>2. CASE ConnectAnswered
  BY <1>2 DEF ConnectAnswered, MayConnect, Sweep
<1>3. CASE ConnectUnanswered
  BY <1>3 DEF ConnectUnanswered, MayConnect, Sweep, leaveUnreachable, delegateUnanswered,
                 abandonMemberLeave, removeEtcdLeaveHook, EndPass
<1>4. CASE FirstRequest
  BY <1>4 DEF FirstRequest
<1>5. CASE InspectUnreadable
  BY <1>5 DEF InspectUnreadable, Inspecting, leaveUnreachable, abandonMemberLeave,
                 removeEtcdLeaveHook, EndPass
<1>6. CASE InspectNotOurs
  BY <1>6 DEF InspectNotOurs, Inspecting, abandonMemberLeave, removeEtcdLeaveHook
<1>7. CASE InspectNotFound
  BY <1>7 DEF InspectNotFound, Inspecting, removeEtcdLeaveHook
<1>8. CASE InspectNotJoined
  BY <1>8 DEF InspectNotJoined, Inspecting, removeEtcdLeaveHook
<1>9. CASE InspectProceed
  BY <1>9 DEF InspectProceed, Inspecting
<1>10. CASE ensureLeaveRequestedForced
  BY <1>10 DEF ensureLeaveRequestedForced
<1>11. CASE stampLeaveRequestedAt
  BY <1>11 DEF stampLeaveRequestedAt, EndPass
<1>12. CASE ReleaseOnAck
  BY <1>12 DEF ReleaseOnAck, removeEtcdLeaveHook
<1>13. CASE ReleaseOnStatus
  BY <1>13 DEF ReleaseOnStatus, removeEtcdLeaveHook
<1>14. CASE ensureLeaveRequested
  BY <1>14 DEF ensureLeaveRequested, NotGone, EndPass
<1>15. CASE DelegateNotOurs
  BY <1>15 DEF DelegateNotOurs, Delegating, NotGone, abandonMemberLeave, removeEtcdLeaveHook
<1>16. CASE DelegateUnreadable
  BY <1>16 DEF DelegateUnreadable, Delegating, NotGone, delegateUnanswered,
                 abandonMemberLeave, removeEtcdLeaveHook, EndPass
<1>17. CASE DelegateInspect
  BY <1>17 DEF DelegateInspect, Delegating, NotGone
<1>18. CASE DelegateLeave
  BY <1>18 DEF DelegateLeave, LockHolds, removeEtcdLeaveHook, abandonMemberLeave,
                 EndPass
<1>19. CASE DelegateConflict
  BY <1>19 DEF DelegateConflict, LockHolds, abandonMemberLeave, removeEtcdLeaveHook, EndPass
<1>20. CASE PassFails
  BY <1>20 DEF PassFails, EndPass
<1>21. CASE ConnectForeign
  BY <1>21 DEF ConnectForeign, MayConnect, Sweep
<1>22. CASE FreezeChanges
  BY <1>22 DEF FreezeChanges
<1>23. CASE KCPDeleted
  BY <1>23 DEF KCPDeleted
<1>24. CASE stripEtcdLeaveHooks
  BY <1>24 DEF stripEtcdLeaveHooks
<1>25. CASE Node
  <2>1. UNCHANGED <<phase, requested, delegated, memberID, pc, cmSeen, emSeen>>
    BY <1>25 DEF Node, NodeAdds, NodeStarts, NodePoll, NodeLeaves, NodeLeaveFails,
                 NodeMarks, NodeAcks, NodeStops
  <2>2. em' = em \/ ~em'.leave
    <3>1. NodeStarts => em' = em \/ ~em'.leave
      BY NoLeaveYet DEF NodeStarts
    <3>2. (NodeAdds \/ NodePoll \/ NodeLeaves \/ NodeLeaveFails
           \/ NodeMarks \/ NodeAcks \/ NodeStops) => em' = em
      BY DEF NodeAdds, NodePoll, NodeLeaves, NodeLeaveFails, NodeMarks, NodeAcks, NodeStops
    <3> QED  BY <1>25, <3>1, <3>2 DEF Node
  <2>3. cm' = cm \/ cm' = "left"
    BY <1>25 DEF Node, NodeAdds, NodeStarts, NodePoll, NodeLeaves, NodeLeaveFails,
                 NodeMarks, NodeAcks, NodeStops
  <2> QED  BY <2>1, <2>2, <2>3
<1>26. CASE K0s
  <2>1. UNCHANGED <<phase, requested, delegated, memberID, pc, cmSeen, emSeen, cm>>
    BY <1>26 DEF K0s, K0sReports, K0sRemoves, NameTaken
  <2>2. em'.leave = em.leave \/ ~em'.leave
    <3>1. K0sReports => em'.leave = em.leave
      BY DEF K0sReports
    <3>2. K0sRemoves => em'.leave = em.leave
      BY DEF K0sRemoves
    <3>3. NameTaken => ~em'.leave
      BY NoLeaveYet DEF NameTaken
    <3> QED  BY <1>26, <3>1, <3>2, <3>3 DEF K0s
  <2> QED  BY <2>1, <2>2
<1>27. CASE CAPI
  <2>1. phase' # "draining"
    BY <1>27 DEF CAPI, DrainDone, Terminate
  <2>2. UNCHANGED <<requested, memberID, pc, emSeen, cm, em>>
    BY <1>27 DEF CAPI, DrainDone, Terminate
  <2> QED  BY <2>1, <2>2
<1>28. CASE \E c \in Clocks : Expire(c)
  <2>1. UNCHANGED <<phase, requested, delegated, memberID, pc, emSeen, cm, em>>
    BY <1>28 DEF Expire
  <2> QED  BY <2>1
<1>29. CASE UNCHANGED vars
  BY <1>29 DEF vars
<1> QED
  BY <1>1, <1>2, <1>3, <1>4, <1>5, <1>6, <1>7, <1>8, <1>9, <1>10, <1>11, <1>12,
     <1>13, <1>14, <1>15, <1>16, <1>17, <1>18, <1>19, <1>20, <1>21, <1>22, <1>23,
     <1>24, <1>25, <1>26, <1>27, <1>28, <1>29 DEF Next, Pass, KCP

\* The order holds in every reachable state.
LEMMA OrderInvariant == Spec => [](LeaveInv /\ OrderInv)
<1>1. Init => OrderInv
  <2> SUFFICES ASSUME Init PROVE OrderInv
    OBVIOUS
  <2>1. ~requested /\ ~delegated /\ pc = "idle"
    BY DEF Init
  <2>2. em = NoMember \/ em = OwnMember \/ \E p \in BOOLEAN : em = OthersMember(p)
    BY DEF Init
  <2>3. ~em.leave
    BY <2>2, NoLeaveYet
  <2> QED  BY <2>1, <2>3 DEF OrderInv
<1> QED  BY <1>1, LeaveInvariant, NextOrderInv, PTL DEF Spec

\* The node is asked to leave etcd only when CAPI has drained it
\* (reconcileMemberLeave waits for the pre-terminate pause).
THEOREM DrainComesFirst == Spec => []NoLeaveDuringDrain
<1>1. OrderInv => NoLeaveDuringDrain
  BY DEF OrderInv, NoLeaveDuringDrain
<1> QED  BY <1>1, OrderInvariant, PTL

\* An ack of this eviction is not overwritten, whatever the pass read before it,
\* and spec.leave is set only on the member whose ID the Machine recorded, although
\* the EtcdMember can change between the read and the patch (ensureLeaveRequested,
\* delegateMemberLeave).
THEOREM WritesKeepOrder == Spec => OrderedWrites
<1>1. LeaveInv /\ OrderInv /\ [Next]_vars => [OrderedStep]_vars
  BY NextOrderInv
<1> QED  BY <1>1, OrderInvariant, PTL DEF Spec, OrderedWrites, OrderedStep

\* The work queue only holds passes back: with it the handshake is still the
\* handshake, so what is proved of Spec holds for the controller as it is woken.
THEOREM QueueOnlyHoldsBack == QueueSpec => Spec
<1>1. QueueInit => Init
  BY DEF QueueInit
<1>2. [QueueNext]_queueVars => [Next]_vars
  <2> SUFFICES ASSUME [QueueNext]_queueVars PROVE [Next]_vars
    OBVIOUS
  <2>1. CASE QueuedPass
    <3>1. Pass \/ ConnectForeign
      BY <2>1 DEF QueuedPass, QuietPass, UnansweredPass, UnreadablePass, UndelegatedPass, Pass
    <3> QED  BY <3>1 DEF Next, KCP
  <2>2. CASE StoppedPass   BY <2>2 DEF StoppedPass, Next, KCP
  <2>3. CASE WatchedStep   BY <2>3 DEF WatchedStep, Next, KCP
  <2>4. CASE UnwatchedStep BY <2>4 DEF UnwatchedStep, Next
  <2>5. CASE OtherEvent    BY <2>5 DEF OtherEvent
  <2>6. CASE UNCHANGED queueVars
    BY <2>6 DEF queueVars
  <2> QED  BY <2>1, <2>2, <2>3, <2>4, <2>5, <2>6 DEF QueueNext
<1> QED  BY <1>1, <1>2, PTL DEF QueueSpec, Spec

\* A step that fails puts its words on the status; one that does not brings a pass.
LEMMA FailureShows ==
  ASSUME NEW words \in Words \ {NoFailure}, FailsUnlessOver(words)
  PROVE  StrandedShows'
  BY DEF FailsUnlessOver, Fails, Requeues, StrandedShows, Unwatched

\* Nothing waits in silence: a leave that no pass is going to look at again has its
\* failure on the KCP's status (Reconcile records the error and returns nil).
THEOREM NothingWaitsInSilence == QueueSpec => []StrandedShows
<1>1. QueueInit => StrandedShows
  BY DEF QueueInit, StrandedShows, Unwatched
<1>2. StrandedShows /\ [QueueNext]_queueVars => StrandedShows'
  <2> SUFFICES ASSUME StrandedShows, [QueueNext]_queueVars PROVE StrandedShows'
    OBVIOUS
  <2> USE DEF StrandedShows, Unwatched
  <2>1. CASE QuietPass
    BY <2>1 DEF QuietPass, Succeeds, Requeues
  <2>2. CASE UnansweredPass
    BY <2>2, FailureShows DEF UnansweredPass, Words, NoFailure
  <2>3. CASE UnreadablePass
    BY <2>3, FailureShows DEF UnreadablePass, Words, NoFailure
  <2>4. CASE UndelegatedPass
    BY <2>4, FailureShows DEF UndelegatedPass, Words, NoFailure
  <2>5. CASE StoppedPass
    BY <2>5 DEF StoppedPass, Fails, NoFailure
  <2>6. CASE WatchedStep
    BY <2>6 DEF WatchedStep
  <2>7. CASE UnwatchedStep
    <3> USE DEF kcpVars, passVars
    <3>1. Node => UNCHANGED <<hook, pc, frozen, teardown>>
      BY DEF Node, NodeAdds, NodeStarts, NodePoll, NodeLeaves, NodeLeaveFails, NodeMarks,
        NodeAcks, NodeStops
    <3>2. K0s => UNCHANGED <<hook, pc, frozen, teardown>>
      BY DEF K0s, K0sReports, K0sRemoves, NameTaken
    <3>3. (\E c \in Clocks : Expire(c)) => UNCHANGED <<hook, pc, frozen, teardown>>
      BY DEF Expire
    <3> HIDE DEF kcpVars, passVars
    <3> QED  BY <2>7, <3>1, <3>2, <3>3 DEF UnwatchedStep, queue
  <2>8. CASE OtherEvent
    BY <2>8 DEF OtherEvent
  <2>9. CASE UNCHANGED queueVars
    BY <2>9 DEF queueVars, vars, kcpVars, passVars, queue
  <2> QED  BY <2>1, <2>2, <2>3, <2>4, <2>5, <2>6, <2>7, <2>8, <2>9 DEF QueueNext, QueuedPass
<1> QED  BY <1>1, <1>2, PTL DEF QueueSpec
=============================================================================
