--------------------------- MODULE MembershipProofs ---------------------------
(***************************************************************************)
(* Types, AtMostOneOwner, OwnerKept, ChosenRoleKept and NoWaitCycle of     *)
(* Membership, for any number of persons and requests.                     *)
(***************************************************************************)
EXTENDS Membership, FiniteSetTheorems, TLAPS

\* A request at one of these has locked the row it is about.
Locking == {"count", "write", "demote", "demoting", "promote"}

\* At one of these it has a role to give, unless it removes somebody.
Giving == {"redeem", "save", "lookup", "lock", "count", "write"}

\* What a request q in flight can rely on: a login's user exists; who writes a row has
\* locked it, and locked rows exist; a row about to be written without a count is not the
\* owner's; the rows a transfer demotes are its own.
Sound(q) ==
    /\ q.pc \notin {"idle", "cascade"} => q.who \in Persons
    /\ q.pc \in {"redeem", "save"} => q.op = "jit" /\ home[q.who] # "none"
    /\ q.pc \in Giving /\ q.op # "remove" => q.role \in Assignable
    /\ q.pc \in Locking => q.who \in q.held
    /\ q.pc \notin Locking \cup {"cascade"} => q.held = {}
    /\ \A p \in q.held : IsMember(p)
    /\ q.pc = "promote" => q.seen \subseteq q.held
    /\ q.pc = "write" => q.who \notin Owners

\* No row is locked twice.
Locks == \A r, s \in Reqs : r # s => req[r].held \cap req[s].held = {}

IInv == TypeOK /\ AtMostOneOwner /\ Locks /\ \A r \in Reqs : Sound(req[r])

\* At the start there is one owner, and no request.
LEMMA InitInv == Init => IInv
<1> SUFFICES ASSUME Init PROVE IInv OBVIOUS
<1> USE RoleAssumption DEF RoleAssumption
<1>1. PICK owner \in Persons, others \in SUBSET Persons :
        /\ home = [p \in Persons |-> IF p = owner THEN "here"
                                     ELSE IF p \in others THEN "elsewhere" ELSE "none"]
        /\ row = [p \in Persons |-> IF p = owner THEN [NoRow EXCEPT !.role = "owner"] ELSE NoRow]
        /\ invite = [p \in Persons |-> "none"]
        /\ req = [r \in Reqs |-> Idle]
  BY DEF Init
<1>2. Idle \in ReqType BY DEF Idle, ReqType, Ops, PCs
<1>3. NoRow \in RowType /\ [NoRow EXCEPT !.role = "owner"] \in RowType
      /\ NoRow.role = "none" /\ [NoRow EXCEPT !.role = "owner"].role = "owner"
  BY DEF NoRow, RowType, Roles, Vias
<1>4. TypeOK BY <1>1, <1>2, <1>3 DEF TypeOK, Homes, IsMember
<1>5. AtMostOneOwner BY <1>1, <1>3 DEF AtMostOneOwner, Owners
<1>6. Locks /\ \A r \in Reqs : Sound(req[r]) BY <1>1 DEF Locks, Sound, Idle, Locking, Giving
<1> QED BY <1>4, <1>5, <1>6 DEF IInv

\* A step that only changes one request keeps it, if the changed request is sound and has
\* locked no row that another has.
LEMMA RequestStep ==
    ASSUME IInv, UNCHANGED <<home, row, invite>>,
           NEW r \in Reqs, NEW q \in ReqType, req' = [req EXCEPT ![r] = q],
           Sound(q), \A s \in Reqs \ {r} : q.held \cap req[s].held = {}
    PROVE  IInv'
<1>1. TypeOK' BY DEF IInv, TypeOK, IsMember
<1>2. AtMostOneOwner' BY DEF IInv, AtMostOneOwner, Owners
<1>3. Locks' BY DEF IInv, TypeOK, Locks
<1>4. ASSUME NEW s \in Reqs PROVE Sound(req[s])'
  <2>1. Sound(req'[s]) BY DEF IInv, TypeOK
  <2> QED BY <2>1 DEF Sound, IsMember, Owners
<1> QED BY <1>1, <1>2, <1>3, <1>4 DEF IInv

\* A request ends; its locks are free.
LEMMA FinishStep ==
    ASSUME IInv, UNCHANGED <<home, row, invite>>, NEW r \in Reqs, Finish(r) PROVE IInv'
<1>1. Idle \in ReqType BY RoleAssumption DEF RoleAssumption, Idle, ReqType, Ops, PCs
<1>2. Sound(Idle) /\ Idle.held = {} BY DEF Sound, Idle, Locking, Giving
<1> QED BY <1>1, <1>2, RequestStep DEF Finish

\* A request that starts holds no lock yet.
LEMMA StartStep ==
    ASSUME IInv, UNCHANGED <<home, row, invite>>, NEW r \in Reqs, NEW p \in Persons,
           NEW op \in Ops, NEW pc \in {"lock", "target", "erase"},
           NEW role \in Assignable \cup {"none"}, Start(r, op, pc, p, role),
           pc = "lock" /\ op # "remove" => role \in Assignable
    PROVE  IInv'
<1> DEFINE q == [Idle EXCEPT !.op = op, !.pc = pc, !.who = p, !.role = role]
<1>1. q \in ReqType BY DEF Idle, ReqType, Ops, PCs
<1>2. Sound(q) /\ q.held = {} BY DEF Sound, Idle, Locking, Giving
<1>3. req' = [req EXCEPT ![r] = q] BY DEF Start
<1> HIDE DEF q
<1> QED BY <1>1, <1>2, <1>3, RequestStep

\* A login goes on with its next statement.
LEMMA LoginStep ==
    ASSUME IInv, UNCHANGED <<home, row, invite>>, NEW r \in Reqs,
           NEW pc \in {"save", "lookup", "lock"}, Goto(r, pc),
           At(r, "redeem") \/ At(r, "save") \/ At(r, "lookup"),
           pc = "save" => At(r, "redeem")
    PROVE  IInv'
<1> DEFINE q == [req[r] EXCEPT !.pc = pc]
<1>1. q \in ReqType BY DEF IInv, TypeOK, ReqType, PCs
<1>2. Sound(req[r]) /\ req[r] \in ReqType BY DEF IInv, TypeOK
<1>3. Sound(q) /\ q.held = {} BY <1>2 DEF Sound, Locking, Giving, At, ReqType
<1>4. req' = [req EXCEPT ![r] = q] BY DEF Goto
<1> HIDE DEF q
<1> QED BY <1>1, <1>3, <1>4, RequestStep

\* A role change or a removal locks its row if nobody else holds it.
LEMMA LockRowInv == ASSUME IInv, NEW r \in Reqs, LockRow(r) PROVE IInv'
<1> DEFINE p == req[r].who
           q == [req[r] EXCEPT !.pc = IF p \in Owners THEN "count" ELSE "write", !.held = {p}]
<1>1. CASE Finish(r) BY <1>1, FinishStep DEF LockRow
<1>2. CASE ~Finish(r)
  <2>1. req[r] \in ReqType /\ Sound(req[r]) /\ At(r, "lock") BY DEF IInv, TypeOK, LockRow
  <2>2. p \in Persons BY <2>1 DEF Sound, At
  <2>3. IsMember(p) /\ req' = [req EXCEPT ![r] = q] BY <1>2 DEF LockRow
  <2>4. q \in ReqType BY <2>1, <2>2 DEF ReqType, PCs
  <2>5. Sound(q) BY <2>1, <2>2, <2>3 DEF Sound, At, Locking, Giving, ReqType
  <2>6. q.held = {p} BY <2>1 DEF ReqType
  <2>7. \A s \in Reqs \ {r} : q.held \cap req[s].held = {} BY <2>6 DEF LockRow, Free
  <2> HIDE DEF q
  <2> QED BY <2>3, <2>4, <2>5, <2>7, RequestStep DEF LockRow
<1> QED BY <1>1, <1>2

\* A transfer does so with its target's row ...
LEMMA LockTargetInv == ASSUME IInv, NEW r \in Reqs, LockTarget(r) PROVE IInv'
<1> DEFINE p == req[r].who
           q == [req[r] EXCEPT !.pc = "demote", !.held = {p}]
<1>1. CASE Finish(r) BY <1>1, FinishStep DEF LockTarget
<1>2. CASE ~Finish(r)
  <2>1. req[r] \in ReqType /\ Sound(req[r]) /\ At(r, "target") BY DEF IInv, TypeOK, LockTarget
  <2>2. p \in Persons BY <2>1 DEF Sound, At
  <2>3. IsMember(p) /\ req' = [req EXCEPT ![r] = q] BY <1>2 DEF LockTarget
  <2>4. q \in ReqType BY <2>1, <2>2 DEF ReqType, PCs
  <2>5. Sound(q) BY <2>1, <2>2, <2>3 DEF Sound, At, Locking, Giving, ReqType
  <2>6. q.held = {p} BY <2>1 DEF ReqType
  <2>7. \A s \in Reqs \ {r} : q.held \cap req[s].held = {} BY <2>6 DEF LockTarget, Free
  <2> HIDE DEF q
  <2> QED BY <2>3, <2>4, <2>5, <2>7, RequestStep DEF LockTarget
<1> QED BY <1>1, <1>2

\* ... finds the owners' rows ...
LEMMA FindOwnersInv == ASSUME IInv, NEW r \in Reqs, FindOwners(r) PROVE IInv'
<1> DEFINE q == [req[r] EXCEPT !.pc = "demoting", !.seen = Owners]
<1>1. req[r] \in ReqType /\ Sound(req[r]) /\ At(r, "demote") BY DEF IInv, TypeOK, FindOwners
<1>2. q \in ReqType BY <1>1 DEF ReqType, PCs, Owners
<1>3. Sound(q) BY <1>1 DEF Sound, At, Locking, Giving, ReqType
<1>4. \A s \in Reqs \ {r} : q.held \cap req[s].held = {} BY <1>1 DEF IInv, Locks, ReqType
<1>5. req' = [req EXCEPT ![r] = q] BY DEF FindOwners
<1> HIDE DEF q
<1> QED BY <1>2, <1>3, <1>4, <1>5, RequestStep DEF FindOwners

\* ... and locks those that are the owners' still.
LEMMA DemoteOwnersInv == ASSUME IInv, NEW r \in Reqs, DemoteOwners(r) PROVE IInv'
<1> DEFINE held == req[r].held \cup Demoted(r)
           q == [req[r] EXCEPT !.pc = "promote", !.seen = Demoted(r), !.held = held]
<1>1. req[r] \in ReqType /\ Sound(req[r]) /\ At(r, "demoting") BY DEF IInv, TypeOK, DemoteOwners
<1>2. Demoted(r) \subseteq Persons /\ \A p \in Demoted(r) : IsMember(p)
  BY DEF Demoted, Owners, IsMember
<1>3. q \in ReqType BY <1>1, <1>2 DEF ReqType, PCs
<1>4. Sound(q) BY <1>1, <1>2 DEF Sound, At, Locking, Giving, ReqType
<1>5. \A s \in Reqs \ {r} : held \cap req[s].held = {}
  BY <1>1 DEF IInv, Locks, DemoteOwners, Demoted, Free
<1>6. \A s \in Reqs \ {r} : q.held \cap req[s].held = {} BY <1>1, <1>5 DEF ReqType
<1>7. req' = [req EXCEPT ![r] = q] BY DEF DemoteOwners
<1> HIDE DEF q
<1> QED BY <1>3, <1>4, <1>6, <1>7, RequestStep DEF DemoteOwners

\* The count never lets an owner go: there is at most one.
LEMMA CountOwnersInv == ASSUME IInv, NEW r \in Reqs, CountOwners(r) PROVE IInv'
<1>1. Owners = {} \/ \E p \in Owners : Owners = {p} BY DEF IInv, AtMostOneOwner
<1>2. Cardinality(Owners) \in {0, 1}
  <2>1. CASE Owners = {} BY <2>1, FS_EmptySet
  <2>2. ASSUME NEW p \in Owners, Owners = {p} PROVE Cardinality(Owners) = 1
    <3>1. Cardinality({p}) = 1 BY FS_Singleton
    <3> QED BY <2>2, <3>1
  <2> QED BY <1>1, <2>1, <2>2
<1>3. Finish(r) BY <1>2 DEF CountOwners
<1> QED BY <1>3, FinishStep DEF CountOwners

\* Somebody who is not a member becomes one: nobody had locked that row, and the new
\* role is never the owner's.
LEMMA InsertInv ==
    ASSUME IInv, NEW p \in Persons, NEW role \in Assignable, NEW via \in Vias,
           ~IsMember(p), Insert(p, role, via),
           home' \in [Persons -> Homes], home'[p] # "none",
           \A q \in Persons : home[q] # "none" => home'[q] # "none",
           invite' \in [Persons -> Assignable \cup {"none"}],
           UNCHANGED req \/ \E r \in Reqs : Finish(r)
    PROVE  IInv'
<1>1. role \in {"admin", "member"} BY RoleAssumption DEF RoleAssumption
<1>2. row' = [row EXCEPT ![p] = [role |-> role, via |-> via]] BY DEF Insert
<1>3. Owners' = Owners BY <1>1, <1>2 DEF IInv, TypeOK, Owners, IsMember
<1>4. \A q \in Persons : IsMember(q) => IsMember(q)' BY <1>1, <1>2 DEF IInv, TypeOK, IsMember
<1>5. Idle \in ReqType /\ Idle.held = {} /\ Sound(Idle)
  BY RoleAssumption DEF RoleAssumption, Idle, ReqType, Ops, PCs, Sound, Locking, Giving
<1>6. req' \in [Reqs -> ReqType] /\ \A r \in Reqs : req'[r] = req[r] \/ req'[r] = Idle
  BY <1>5 DEF IInv, TypeOK, Finish
<1>7. row' \in [Persons -> RowType] BY <1>1, <1>2 DEF IInv, TypeOK, RowType, Roles
<1>8. TypeOK' BY <1>1, <1>2, <1>6, <1>7 DEF IInv, TypeOK, IsMember
<1>9. Locks' BY <1>5, <1>6 DEF IInv, Locks
<1>10. ASSUME NEW r \in Reqs PROVE Sound(req[r])'
  <2>1. Sound(req'[r]) /\ req'[r] \in ReqType BY <1>5, <1>6 DEF IInv
  <2> QED BY <1>3, <1>4, <2>1 DEF Sound, ReqType
<1> QED BY <1>3, <1>8, <1>9, <1>10 DEF IInv, AtMostOneOwner

\* A deletion that commits has locked all the rows that go.
LEMMA AllLocked ==
    ASSUME IInv, NEW r \in Reqs, CascadeCommit(r)
    PROVE  \A s \in Reqs \ {r} : req[s].held \cap Elsewhere = {}
BY DEF IInv, Locks, Sound, CascadeCommit, IsMember

\* Users are erased whose rows nobody else holds: what was asked for them ends, and the locks
\* of the others stay.
LEMMA ErasedInv ==
    ASSUME IInv, NEW c \in Reqs, NEW gone \in SUBSET Persons, Erased(c, gone),
           \A r \in Reqs \ {c} : req[r].held \cap gone = {}
    PROVE  IInv'
<1> DEFINE over == {c} \cup {s \in Reqs : \E p \in gone : ById(s, p) \/ ForUser(s, p)}
<1>1. Idle \in ReqType /\ Idle.held = {} /\ Sound(Idle)
  BY RoleAssumption DEF RoleAssumption, Idle, ReqType, Ops, PCs, Sound, Locking, Giving
<1>2. req' = [r \in Reqs |-> IF r \in over THEN Idle ELSE [req[r] EXCEPT !.seen = @ \ gone]]
  BY DEF Erased, Ended
<1>3. NoRow \in RowType /\ NoRow.role = "none" BY DEF NoRow, RowType, Roles, Vias
<1>4. \A p \in Persons : /\ row'[p] = IF p \in gone THEN NoRow ELSE row[p]
                         /\ home'[p] = IF p \in gone THEN "none" ELSE home[p]
  BY DEF Erased
<1>5. req' \in [Reqs -> ReqType]
  <2>1. ASSUME NEW r \in Reqs PROVE [req[r] EXCEPT !.seen = @ \ gone] \in ReqType
    BY DEF IInv, TypeOK, ReqType
  <2> HIDE DEF over
  <2> QED BY <1>1, <1>2, <2>1
<1>6. TypeOK'
  <2>1. row' \in [Persons -> RowType] BY <1>3 DEF Erased, IInv, TypeOK
  <2>2. home' \in [Persons -> Homes] BY DEF Erased, IInv, TypeOK, Homes
  <2>3. invite' \in [Persons -> Assignable \cup {"none"}] BY DEF Erased, IInv, TypeOK
  <2>4. \A p \in Persons : IsMember(p)' => home'[p] # "none"
    BY <1>3, <1>4 DEF IsMember, IInv, TypeOK
  <2> QED BY <1>5, <2>1, <2>2, <2>3, <2>4 DEF TypeOK
<1>7. Owners' = Owners \ gone BY <1>3, <1>4 DEF Owners
<1>8. \A p \in Persons \ gone : IsMember(p) => IsMember(p)' BY <1>4 DEF IsMember
<1>9. \A r \in Reqs : req'[r].held \in {req[r].held, {}}
  <2> HIDE DEF over
  <2> QED BY <1>1, <1>2 DEF IInv, TypeOK, ReqType
<1>10. Locks' BY <1>9 DEF IInv, Locks
<1>11. ASSUME NEW r \in Reqs PROVE Sound(req[r])'
  <2>1. CASE r \in over BY <1>1, <1>2, <2>1 DEF Sound, Idle, Locking, Giving
  <2>2. CASE r \notin over
    <3> DEFINE q == [req[r] EXCEPT !.seen = @ \ gone]
    <3>1. req'[r] = q BY <1>2, <2>2
    <3>2. Sound(req[r]) /\ req[r] \in ReqType BY DEF IInv, TypeOK
    <3>3. \A p \in q.held : IsMember(p)'
      <4>1. q.held = req[r].held /\ r # c BY <2>2, <3>2 DEF ReqType
      <4> QED BY <1>8, <3>2, <4>1 DEF Sound, ReqType
    <3>4. q.pc \in {"redeem", "save"} => home'[q.who] # "none"
      BY <1>4, <2>2, <3>2 DEF Sound, ReqType, ForUser
    <3>5. q.pc = "write" => q.who \notin Owners' BY <1>7, <3>2 DEF Sound, ReqType
    <3>6. q.pc = "promote" => q.seen \subseteq q.held BY <3>2 DEF Sound, ReqType
    <3> QED BY <3>1, <3>2, <3>3, <3>4, <3>5, <3>6 DEF Sound, ReqType
  <2> QED BY <2>1, <2>2
<1> QED BY <1>6, <1>7, <1>10, <1>11 DEF IInv, AtMostOneOwner

\* A role is written, or a member removed: the row was locked, and not the owner's.
LEMMA WriteRowInv == ASSUME IInv, NEW r \in Reqs, WriteRow(r) PROVE IInv'
<1> DEFINE p == req[r].who
<1>1. /\ req[r] \in ReqType /\ Sound(req[r]) /\ At(r, "write")
      /\ p \in Persons /\ p \in req[r].held /\ p \notin Owners /\ row[p] \in RowType
  BY DEF IInv, TypeOK, WriteRow, At, Sound, Locking
<1>2. \A s \in Reqs \ {r} : p \notin req[s].held BY <1>1 DEF IInv, Locks
<1>3. Idle \in ReqType /\ Idle.held = {} /\ Sound(Idle)
  BY RoleAssumption DEF RoleAssumption, Idle, ReqType, Ops, PCs, Sound, Locking, Giving
<1>4. CASE req[r].op # "remove"
  <2>1. req[r].role \in {"admin", "member"}
    BY <1>1, <1>4, RoleAssumption DEF RoleAssumption, Sound, At, Giving
  <2>2. row' = [row EXCEPT ![p].role = req[r].role] /\ Finish(r) BY <1>4 DEF WriteRow
  <2>3. row' \in [Persons -> RowType] /\ \A q \in Persons : IsMember(q)' <=> IsMember(q)
    BY <1>1, <2>1, <2>2 DEF IInv, TypeOK, RowType, Roles, IsMember, Sound
  <2>4. Owners' = Owners BY <1>1, <2>1, <2>2 DEF Owners, IInv, TypeOK, RowType
  <2>5. req' \in [Reqs -> ReqType] /\ \A s \in Reqs : req'[s] = req[s] \/ req'[s] = Idle
    BY <1>3, <2>2 DEF IInv, TypeOK, Finish
  <2>6. TypeOK' BY <2>3, <2>5 DEF IInv, TypeOK, WriteRow
  <2>7. Locks' BY <1>3, <2>5 DEF IInv, Locks
  <2>8. ASSUME NEW s \in Reqs PROVE Sound(req[s])'
    <3>1. Sound(req'[s]) /\ req'[s] \in ReqType BY <1>3, <2>5 DEF IInv
    <3> QED BY <2>3, <2>4, <3>1 DEF Sound, ReqType, WriteRow
  <2> QED BY <2>4, <2>6, <2>7, <2>8 DEF IInv, AtMostOneOwner
<1>5. CASE req[r].op = "remove"
  <2> DEFINE over == {r} \cup {s \in Reqs : ById(s, p)}
  <2>1. /\ row' = [row EXCEPT ![p] = NoRow]
        /\ req' = [s \in Reqs |-> IF s \in over THEN Idle ELSE [req[s] EXCEPT !.seen = @ \ {p}]]
    BY <1>5 DEF WriteRow, Ended
  <2>2. NoRow \in RowType /\ NoRow.role = "none" BY DEF NoRow, RowType, Roles, Vias
  <2>3. Owners' = Owners BY <1>1, <2>1, <2>2 DEF Owners, IInv, TypeOK
  <2>4. \A q \in Persons \ {p} : row'[q] = row[q] BY <2>1 DEF IInv, TypeOK
  <2>5. row' \in [Persons -> RowType] BY <2>1, <2>2 DEF IInv, TypeOK
  <2>6. \A q \in Persons : IsMember(q)' => IsMember(q)
    BY <1>1, <2>1, <2>2 DEF IInv, TypeOK, IsMember
  <2>7. req' \in [Reqs -> ReqType] /\ \A s \in Reqs : req'[s].held \in {req[s].held, {}}
    <3>1. ASSUME NEW s \in Reqs
          PROVE  [req[s] EXCEPT !.seen = @ \ {p}] \in ReqType
                 /\ [req[s] EXCEPT !.seen = @ \ {p}].held = req[s].held
      BY DEF IInv, TypeOK, ReqType
    <3> HIDE DEF over
    <3> QED BY <1>3, <2>1, <3>1
  <2>8. TypeOK' BY <2>5, <2>6, <2>7 DEF IInv, TypeOK, WriteRow
  <2>9. Locks' BY <2>7 DEF IInv, Locks
  <2>10. ASSUME NEW s \in Reqs PROVE Sound(req[s])'
    <3>1. CASE s \in over BY <2>1, <3>1 DEF Sound, Idle, Locking, Giving
    <3>2. CASE s \notin over
      <4> DEFINE q == [req[s] EXCEPT !.seen = @ \ {p}]
      <4>1. req'[s] = q /\ s # r BY <2>1, <3>2
      <4>2. Sound(req[s]) /\ req[s] \in ReqType BY DEF IInv, TypeOK
      <4>3. \A x \in q.held : IsMember(x)'
        BY <1>2, <2>4, <4>1, <4>2 DEF Sound, ReqType, IsMember
      <4>4. q.pc \in {"redeem", "save"} => home'[q.who] # "none"
        BY <4>2 DEF Sound, ReqType, WriteRow
      <4>5. q.pc = "write" => q.who \notin Owners' BY <2>3, <4>2 DEF Sound, ReqType
      <4>6. q.pc = "promote" => q.seen \subseteq q.held BY <4>2 DEF Sound, ReqType
      <4> QED BY <4>1, <4>2, <4>3, <4>4, <4>5, <4>6 DEF Sound, ReqType
    <3> QED BY <3>1, <3>2
  <2> QED BY <2>3, <2>8, <2>9, <2>10 DEF IInv, AtMostOneOwner
<1> QED BY <1>4, <1>5

\* A transfer leaves its target as the only owner: the others it has demoted, and the
\* unique index lets no one else be.
LEMMA PromoteOwners ==
    ASSUME IInv, NEW r \in Reqs, Promote(r)
    PROVE  /\ req[r].who \in Persons /\ Owners' = {req[r].who}
           /\ row' \in [Persons -> RowType]
           /\ \A q \in Persons : /\ IsMember(q)' <=> IsMember(q)
                                 /\ q \notin req[r].held => row'[q] = row[q]
<1> DEFINE p == req[r].who
<1>1. /\ req[r] \in ReqType /\ p \in Persons /\ p \in req[r].held /\ IsMember(p)
      /\ req[r].seen \subseteq req[r].held /\ \A q \in Persons : row[q] \in RowType
  BY DEF IInv, TypeOK, Promote, At, Sound, Locking
<1>2. \A q \in Persons :
        row'[q] = IF q = p THEN [row[q] EXCEPT !.role = "owner"]
                  ELSE IF q \in Demoted(r) THEN [row[q] EXCEPT !.role = "admin"]
                  ELSE row[q]
  BY DEF Promote
<1>3. \A q \in Persons \ {p} : q \in Owners => q \in Demoted(r) BY DEF Promote, OtherOwners
<1>4. Owners' = {p}
  <2>1. row'[p].role = "owner" BY <1>1, <1>2 DEF RowType
  <2>2. ASSUME NEW q \in Persons \ {p} PROVE row'[q].role # "owner"
    BY <1>1, <1>2, <1>3 DEF RowType, Owners
  <2> QED BY <1>1, <2>1, <2>2 DEF Owners
<1>5. \A q \in Persons : row'[q] \in RowType /\ (IsMember(q)' <=> IsMember(q))
  BY <1>1, <1>2 DEF RowType, Roles, IsMember, Demoted, Owners
<1>6. \A q \in Persons : q \notin req[r].held => row'[q] = row[q]
  BY <1>1, <1>2 DEF Demoted
<1>7. row' \in [Persons -> RowType]
  <2>1. row' = [q \in Persons |-> row'[q]] BY DEF Promote
  <2> QED BY <1>5, <2>1
<1> QED BY <1>1, <1>4, <1>5, <1>6, <1>7

\* The end of a transfer.
LEMMA PromoteInv == ASSUME IInv, NEW r \in Reqs, Promote(r) PROVE IInv'
<1>1. /\ req[r].who \in Persons /\ Owners' = {req[r].who}
      /\ row' \in [Persons -> RowType]
      /\ \A q \in Persons : /\ IsMember(q)' <=> IsMember(q)
                            /\ q \notin req[r].held => row'[q] = row[q]
  BY PromoteOwners
<1>2. Idle \in ReqType /\ Idle.held = {} /\ Sound(Idle)
  BY RoleAssumption DEF RoleAssumption, Idle, ReqType, Ops, PCs, Sound, Locking, Giving
<1>3. /\ req' \in [Reqs -> ReqType] /\ req'[r] = Idle
      /\ \A s \in Reqs \ {r} : req'[s] = req[s]
  BY <1>2 DEF IInv, TypeOK, Finish, Promote
<1>4. home' = home /\ invite' = invite BY DEF Promote
<1>5. TypeOK'
  <2>1. \A q \in Persons : IsMember(q)' => home'[q] # "none" BY <1>1, <1>4 DEF IInv, TypeOK
  <2> QED BY <1>1, <1>3, <1>4, <2>1 DEF IInv, TypeOK
<1>6. Locks' BY <1>2, <1>3 DEF IInv, Locks
<1>7. ASSUME NEW s \in Reqs PROVE Sound(req[s])'
  <2>1. CASE s = r BY <1>3, <2>1 DEF Sound, Idle, Locking, Giving
  <2>2. CASE s # r
    <3>1. req'[s] = req[s] /\ Sound(req[s]) /\ req[s] \in ReqType
      BY <1>3, <2>2 DEF IInv, TypeOK
    <3>2. req[s].pc = "write" => req[s].who # req[r].who
      BY <2>2, <3>1 DEF IInv, Locks, Sound, Locking, Promote, At
    <3>3. \A x \in req'[s].held : IsMember(x)' BY <1>1, <3>1 DEF Sound, ReqType
    <3>4. req'[s].pc = "write" => req'[s].who \notin Owners' BY <1>1, <3>1, <3>2
    <3> QED BY <1>4, <3>1, <3>3, <3>4 DEF Sound
  <2> QED BY <2>1, <2>2
<1> QED BY <1>1, <1>5, <1>6, <1>7 DEF IInv, AtMostOneOwner

\* What asks for one statement only.
LEMMA NewMemberInv == ASSUME IInv, NEW p \in Persons, NewMember(p) PROVE IInv'
<1> USE RoleAssumption DEF RoleAssumption, Vias, Homes
<1>1. ASSUME NEW role \in Assignable, CreateMembership(p, role) PROVE IInv'
  BY <1>1, InsertInv DEF CreateMembership, IInv, TypeOK
<1>2. CASE RedeemNativeInvitation(p)
  <2>1. invite[p] \in Assignable /\ invite' \in [Persons -> Assignable \cup {"none"}]
    BY <1>2 DEF RedeemNativeInvitation, IInv, TypeOK
  <2>2. /\ home' \in [Persons -> Homes] /\ home'[p] # "none"
        /\ \A q \in Persons : home[q] # "none" => home'[q] # "none"
    BY <1>2 DEF RedeemNativeInvitation, IInv, TypeOK
  <2> QED BY <1>2, <2>1, <2>2, InsertInv DEF RedeemNativeInvitation
<1>3. ASSUME UNCHANGED <<home, row, req>>, invite' \in [Persons -> Assignable \cup {"none"}]
      PROVE  IInv'
  BY <1>3 DEF IInv, TypeOK, AtMostOneOwner, Locks, Sound, Owners, IsMember
<1>4. ASSUME NEW role \in Assignable, CreateNativeInvitation(p, role) PROVE IInv'
  BY <1>3, <1>4 DEF CreateNativeInvitation, IInv, TypeOK
<1>5. CASE RevokePendingInvitation(p)
  BY <1>3, <1>5 DEF RevokePendingInvitation, IInv, TypeOK
<1> QED BY <1>1, <1>2, <1>4, <1>5 DEF NewMember

\* Invitations expire.
LEMMA ExpireInv == IInv /\ InvitationsExpire => IInv'
BY DEF InvitationsExpire, IInv, TypeOK, AtMostOneOwner, Locks, Sound, Owners, IsMember

\* What starts a request.
LEMMA BeginInv ==
    ASSUME IInv, NEW r \in Reqs, NEW p \in Persons, Begin(r, p) PROVE IInv'
<1> USE RoleAssumption DEF RoleAssumption
<1>1. ASSUME NEW role \in Assignable, UpdateRole(r, p, role) PROVE IInv'
  BY <1>1, StartStep DEF UpdateRole, Ops
<1>2. CASE Remove(r, p) BY <1>2, StartStep DEF Remove, Ops
<1>3. CASE TransferOwnership(r, p) BY <1>3, StartStep DEF TransferOwnership, Ops
<1>4. CASE DeleteUser(r, p) BY <1>4, StartStep DEF DeleteUser, Ops
<1>5. ASSUME NEW role \in Assignable, SsoLogin(r, p, role) PROVE IInv'
  <2> DEFINE q == [Idle EXCEPT !.op = "jit", !.pc = "redeem", !.who = p, !.role = role]
  <2>1. q \in ReqType BY DEF Idle, ReqType, Ops, PCs
  <2>2. /\ home' \in [Persons -> Homes] /\ home'[p] # "none"
        /\ \A x \in Persons : home[x] # "none" => home'[x] # "none"
    BY <1>5 DEF SsoLogin, IInv, TypeOK, Homes
  <2>3. q.held = {} /\ Sound(q)' BY <2>2 DEF Sound, Idle, Locking, Giving
  <2>4. req' = [req EXCEPT ![r] = q] /\ UNCHANGED <<row, invite>> BY <1>5 DEF SsoLogin, Start
  <2> HIDE DEF q
  <2>5. TypeOK' /\ AtMostOneOwner' /\ Locks'
    BY <2>1, <2>2, <2>3, <2>4 DEF IInv, TypeOK, AtMostOneOwner, Owners, Locks, IsMember
  <2>6. ASSUME NEW s \in Reqs PROVE Sound(req[s])'
    <3>1. CASE s = r BY <2>3, <2>4, <3>1 DEF IInv, TypeOK, Sound
    <3>2. CASE s # r
      <4>1. req'[s] = req[s] /\ req[s] \in ReqType /\ Sound(req[s])
        BY <2>4, <3>2 DEF IInv, TypeOK
      <4> QED BY <2>2, <2>4, <4>1 DEF Sound, ReqType, Owners, IsMember
    <3> QED BY <3>1, <3>2
  <2> QED BY <2>5, <2>6 DEF IInv
<1> QED BY <1>1, <1>2, <1>3, <1>4, <1>5 DEF Begin

\* What goes on with one.
LEMMA ContinueInv == ASSUME IInv, NEW r \in Reqs, Continue(r) PROVE IInv'
<1> DEFINE p == req[r].who
<1>1. req[r] \in ReqType /\ Sound(req[r]) BY DEF IInv, TypeOK
<1>2. CASE RedeemPendingInvitation(r)
  <2>1. CASE invite[p] = "none"
    <3>1. At(r, "redeem") /\ Goto(r, "save") /\ UNCHANGED <<home, row, invite>>
      BY <1>2, <2>1 DEF RedeemPendingInvitation
    <3> QED BY <3>1, LoginStep
  <2>2. CASE invite[p] # "none" /\ IsMember(p)
    BY <1>2, <2>2, FinishStep DEF RedeemPendingInvitation
  <2>3. CASE invite[p] # "none" /\ ~IsMember(p)
    <3>1. p \in Persons /\ home[p] # "none" BY <1>1, <1>2 DEF RedeemPendingInvitation, At, Sound
    <3>2. invite[p] \in Assignable /\ invite' \in [Persons -> Assignable \cup {"none"}]
      BY <1>2, <2>3, <3>1 DEF RedeemPendingInvitation, IInv, TypeOK
    <3> QED BY <1>2, <2>3, <3>1, <3>2, InsertInv
            DEF RedeemPendingInvitation, Vias, IInv, TypeOK
  <2> QED BY <2>1, <2>2, <2>3
<1>3. CASE SaveMembership(r)
  <2>1. CASE IsMember(p) BY <1>3, <2>1, LoginStep DEF SaveMembership
  <2>2. CASE ~IsMember(p)
    <3>1. p \in Persons /\ home[p] # "none" /\ req[r].role \in Assignable
      BY <1>1, <1>3 DEF SaveMembership, At, Sound, Giving
    <3> QED BY <1>3, <2>2, <3>1, InsertInv DEF SaveMembership, Vias, IInv, TypeOK
  <2> QED BY <2>1, <2>2
<1>4. CASE LookupMembership(r) BY <1>4, LoginStep, FinishStep DEF LookupMembership
<1>5. CASE LockRow(r) BY <1>5, LockRowInv
<1>6. CASE CountOwners(r) BY <1>6, CountOwnersInv
<1>7. CASE WriteRow(r) BY <1>7, WriteRowInv
<1>8. CASE LockTarget(r) BY <1>8, LockTargetInv
<1>9. CASE FindOwners(r) BY <1>9, FindOwnersInv
<1>10. CASE DemoteOwners(r) BY <1>10, DemoteOwnersInv
<1>11. CASE Promote(r) BY <1>11, PromoteInv
<1>12. CASE PromoteFails(r) BY <1>12, FinishStep DEF PromoteFails
<1>13. CASE EraseUser(r)
  <2>1. p \in Persons /\ req[r].held = {}
    BY <1>1, <1>13 DEF EraseUser, At, Sound, Locking
  <2>2. \A s \in Reqs : req[s].held \cap {p} = {} BY <1>13, <2>1 DEF EraseUser, Free
  <2>3. Erased(r, {p}) BY <1>13 DEF EraseUser
  <2> QED BY <2>1, <2>2, <2>3, ErasedInv
<1> QED BY <1>2, <1>3, <1>4, <1>5, <1>6, <1>7, <1>8, <1>9, <1>10, <1>11, <1>12, <1>13
        DEF Continue

\* The deletion of the other organization: whose rows it has locked nobody else has, and at
\* the end it has locked all that go.
LEMMA CascadeInv == ASSUME IInv, NEW r \in Reqs, Cascade(r) PROVE IInv'
<1>1. req[r] \in ReqType /\ Sound(req[r]) BY DEF IInv, TypeOK
<1>2. CASE DeleteOtherOrganization(r)
  <2> DEFINE q == [Idle EXCEPT !.op = "cascade", !.pc = "cascade", !.who = Nobody, !.role = "none"]
  <2>1. q \in ReqType BY DEF Idle, ReqType, Ops, PCs
  <2>2. Sound(q) /\ q.held = {} BY DEF Sound, Idle, Locking, Giving
  <2>3. req' = [req EXCEPT ![r] = q] BY <1>2 DEF DeleteOtherOrganization, Start
  <2> HIDE DEF q
  <2> QED BY <1>2, <2>1, <2>2, <2>3, RequestStep DEF DeleteOtherOrganization
<1>3. ASSUME NEW p \in Persons, CascadeRow(r, p) PROVE IInv'
  <2> DEFINE held == req[r].held \cup {p}
             q == [req[r] EXCEPT !.held = held]
  <2>1. At(r, "cascade") /\ IsMember(p) /\ Free(r, p) BY <1>3 DEF CascadeRow
  <2>2. held \subseteq Persons BY <1>1 DEF ReqType
  <2>3. q \in ReqType /\ q.held = held BY <1>1, <2>2 DEF ReqType
  <2>4. Sound(q) BY <1>1, <2>1 DEF Sound, At, Locking, Giving, ReqType
  <2>5. \A s \in Reqs \ {r} : held \cap req[s].held = {} BY <2>1 DEF IInv, Locks, Free
  <2>6. req' = [req EXCEPT ![r] = q] BY <1>3 DEF CascadeRow
  <2> HIDE DEF q
  <2> QED BY <1>3, <2>3, <2>4, <2>5, <2>6, RequestStep DEF CascadeRow
<1>4. CASE CascadeCommit(r)
  <2>1. \A s \in Reqs \ {r} : req[s].held \cap Elsewhere = {} BY <1>4, AllLocked
  <2>2. Erased(r, Elsewhere) /\ Elsewhere \in SUBSET Persons
    BY <1>4 DEF CascadeCommit, Elsewhere
  <2> QED BY <2>1, <2>2, ErasedInv
<1> QED BY <1>2, <1>3, <1>4 DEF Cascade

\* Every step keeps it.
LEMMA NextInv == IInv /\ [Next]_vars => IInv'
<1> SUFFICES ASSUME IInv, [Next]_vars PROVE IInv' OBVIOUS
<1>1. ASSUME NEW p \in Persons, NewMember(p) PROVE IInv' BY <1>1, NewMemberInv
<1>2. CASE InvitationsExpire BY <1>2, ExpireInv
<1>3. ASSUME NEW r \in Reqs, Continue(r) PROVE IInv' BY <1>3, ContinueInv
<1>4. ASSUME NEW r \in Reqs, RequestFails(r) PROVE IInv'
  BY <1>4, FinishStep DEF RequestFails
<1>5. ASSUME NEW r \in Reqs, NEW p \in Persons, Begin(r, p) PROVE IInv' BY <1>5, BeginInv
<1>6. ASSUME NEW r \in Reqs, Cascade(r) PROVE IInv' BY <1>6, CascadeInv
<1>7. CASE UNCHANGED vars
  BY <1>7 DEF vars, IInv, TypeOK, AtMostOneOwner, Locks, Sound, Owners, IsMember
<1> QED BY <1>1, <1>2, <1>3, <1>4, <1>5, <1>6, <1>7 DEF Next

\* So it always holds.
LEMMA Invariance == Spec => []IInv
BY InitInv, NextInv, PTL DEF Spec

\* The users, memberships, invitations and requests keep their types, and no membership
\* outlives its user.
THEOREM TypeCorrect == Spec => []TypeOK
BY Invariance, PTL DEF IInv

\* TransferOwnership, with any number of requests and persons, never makes two owners.
THEOREM OneOwner == Spec => []AtMostOneOwner
BY Invariance, PTL DEF IInv

\* A step that takes the owner away without a new one erases the owner's user: transfers
\* name another, role changes and removals never touch the owner's row.
LEMMA OwnerStep ==
    ASSUME IInv, [Next]_vars, NEW p \in Owners, Owners' = {} PROVE home'[p] = "none"
<1> USE RoleAssumption DEF RoleAssumption
<1>1. p \in Persons /\ row[p].role = "owner" /\ IsMember(p) BY DEF Owners, IsMember
<1>2. row'[p].role # "owner" BY <1>1 DEF Owners
<1>3. ASSUME NEW q \in Persons, NEW role, NEW via, ~IsMember(q), Insert(q, role, via)
      PROVE  FALSE
  BY <1>1, <1>2, <1>3 DEF Insert, IInv, TypeOK
<1>4. ASSUME NEW q \in Persons, NewMember(q) PROVE FALSE
  BY <1>1, <1>2, <1>3, <1>4
  DEF NewMember, CreateMembership, CreateNativeInvitation, RevokePendingInvitation,
      RedeemNativeInvitation
<1>5. ASSUME NEW r, NEW gone \in SUBSET Persons, Erased(r, gone) PROVE home'[p] = "none"
  BY <1>1, <1>2, <1>5 DEF Erased
<1>6. ASSUME NEW r \in Reqs, Continue(r) PROVE home'[p] = "none"
  <2>1. req[r] \in ReqType /\ Sound(req[r]) BY DEF IInv, TypeOK
  <2>2. CASE RedeemPendingInvitation(r) \/ SaveMembership(r)
    <3>1. req[r].who \in Persons BY <2>1, <2>2 DEF RedeemPendingInvitation, SaveMembership, At, Sound
    <3> QED BY <1>1, <1>2, <1>3, <2>2, <3>1 DEF RedeemPendingInvitation, SaveMembership
  <2>3. CASE WriteRow(r)
    <3>1. req[r].who # p BY <2>1, <2>3 DEF WriteRow, At, Sound
    <3> QED BY <1>1, <1>2, <2>3, <3>1 DEF WriteRow, IInv, TypeOK
  <2>4. CASE Promote(r) BY <2>4, PromoteOwners
  <2>5. CASE EraseUser(r)
    <3>1. req[r].who \in Persons BY <2>1, <2>5 DEF EraseUser, At, Sound
    <3> QED BY <1>5, <2>5, <3>1 DEF EraseUser
  <2>6. CASE UNCHANGED row BY <1>1, <1>2, <2>6
  <2> QED BY <1>6, <2>2, <2>3, <2>4, <2>5, <2>6
          DEF Continue, LookupMembership, LockRow, CountOwners, LockTarget, FindOwners,
              DemoteOwners, PromoteFails
<1>7. ASSUME NEW r \in Reqs, Cascade(r) PROVE home'[p] = "none"
  BY <1>1, <1>2, <1>5, <1>7
  DEF Cascade, DeleteOtherOrganization, CascadeRow, CascadeCommit, Elsewhere
<1>8. CASE UNCHANGED row BY <1>1, <1>2, <1>8
<1> QED BY <1>4, <1>6, <1>7, <1>8
        DEF Next, vars, InvitationsExpire, RequestFails, Begin, SsoLogin, UpdateRole,
            Remove, TransferOwnership, DeleteUser

\* An organization loses its last owner only with the owner's user, whatever requests
\* overlap, for any number of them.
THEOREM OwnerNeverDropped == Spec => OwnerKept
<1>1. IInv /\ [Next]_vars => \A p \in Owners : Owners' = {} => home'[p] = "none"
  BY OwnerStep
<1>2. IInv /\ [Next]_vars => [\A p \in Owners : Owners' = {} => home'[p] = "none"]_vars
  BY <1>1
<1> QED BY <1>2, Invariance, PTL DEF Spec, OwnerKept

------------------------------------------------------------------------------
(* No wait in a circle *)

\* What a transfer has locked: its target, and then the owners it demotes.  One whose
\* target is the owner waits for nobody else.
Ordered(q) ==
    /\ q.pc \in {"count", "write", "demote", "demoting"} => q.held = {q.who}
    /\ q.pc = "demoting" /\ q.who \in Owners => q.seen \subseteq {q.who}
    /\ q.pc = "promote" => q.held \subseteq {q.who} \cup q.seen

Demoting == {r \in Reqs : At(r, "demoting")}

\* Of any transfers about to demote the owners they have found, one waits for none of the
\* others: whoever found the others' targets to be owners found them before.
DemotingOrdered ==
    \A R \in (SUBSET Demoting) \ {{}} :
        \E r \in R : \A s \in R \ {r} : req[s].who \notin req[r].seen

WaitInv == IInv /\ (\A r \in Reqs : Ordered(req[r])) /\ DemotingOrdered

\* What a step does to a request: nothing but take persons it has not locked from those it
\* has seen; let it start, go on or end without locks; lock the row it is about; find the
\* owners; lock the owners it has found.
Moved(r) ==
    \/ /\ req'[r].pc = req[r].pc /\ req'[r].who = req[r].who /\ req'[r].held = req[r].held
       /\ req'[r].seen \subseteq req[r].seen
       /\ req[r].seen \cap req[r].held \subseteq req'[r].seen
    \/ req'[r].pc \notin Locking
    \/ req'[r].pc \in {"count", "write", "demote"} /\ req'[r].held = {req'[r].who}
    \/ /\ At(r, "demote") /\ req'[r].pc = "demoting" /\ req'[r].seen = Owners
       /\ req'[r].who = req[r].who /\ req'[r].held = req[r].held
    \/ /\ At(r, "demoting") /\ req'[r].pc = "promote"
       /\ req'[r].who = req[r].who /\ req'[r].held = req[r].held \cup req'[r].seen

\* Nobody becomes the owner whose row another request has locked.
NewOwnersFree == \A p \in Owners' \ Owners : \A r \in Reqs : p \notin req'[r].held

\* A step in which every request moves this way keeps the order.
LEMMA DemotingKept ==
    ASSUME WaitInv, IInv', NewOwnersFree, \A r \in Reqs : Moved(r)
    PROVE  WaitInv'
<1>0. /\ \A r \in Reqs : req[r] \in ReqType /\ Sound(req[r])
      /\ \A r \in Reqs : req'[r] \in ReqType
      /\ \A r \in Reqs : req'[r].pc \in Locking => req'[r].who \in req'[r].held
      /\ \A r, s \in Reqs : r # s => req'[r].held \cap req'[s].held = {}
      /\ \A p, q \in Owners : p = q
  BY DEF WaitInv, IInv, TypeOK, Locks, Sound, AtMostOneOwner
<1>1. \A r \in Reqs : req'[r].pc \in Locking /\ req'[r].who \in Owners' => req'[r].who \in Owners
  BY <1>0 DEF NewOwnersFree
<1>2. ASSUME NEW r \in Reqs PROVE Ordered(req[r])'
  <2>1. Ordered(req[r]) BY DEF WaitInv
  <2>2. req'[r].pc \in {"count", "write", "demote", "demoting"} => req'[r].held = {req'[r].who}
    BY <2>1 DEF Moved, Ordered, Locking, At
  <2>3. req'[r].pc = "demoting" /\ req'[r].who \in Owners' => req'[r].seen \subseteq {req'[r].who}
    BY <1>0, <1>1, <2>1 DEF Moved, Ordered, Locking, At
  <2>4. req'[r].pc = "promote" => req'[r].held \subseteq {req'[r].who} \cup req'[r].seen
    BY <2>1 DEF Moved, Ordered, Locking, At
  <2> QED BY <2>2, <2>3, <2>4 DEF Ordered
<1>3. DemotingOrdered'
  <2> SUFFICES ASSUME NEW R \in SUBSET Reqs, R # {}, \A r \in R : req'[r].pc = "demoting"
               PROVE  \E r \in R : \A s \in R \ {r} : req'[s].who \notin req'[r].seen
    BY DEF DemotingOrdered, Demoting, At
  <2>1. CASE \A r \in R : At(r, "demoting")
    <3>1. R \in (SUBSET Demoting) \ {{}} BY <2>1 DEF Demoting
    <3>2. PICK r \in R : \A s \in R \ {r} : req[s].who \notin req[r].seen
      BY <3>1 DEF WaitInv, DemotingOrdered
    <3>3. \A s \in R : req'[s].who = req[s].who /\ req'[s].seen \subseteq req[s].seen
      BY <2>1 DEF Moved, Locking, At
    <3> QED BY <3>2, <3>3
  <2>2. ASSUME NEW r \in R, ~At(r, "demoting")
        PROVE  \E q \in R : \A s \in R \ {q} : req'[s].who \notin req'[q].seen
    <3>1. req'[r].seen = Owners BY <2>2 DEF Moved, Locking, At
    <3>2. ASSUME NEW s \in R \ {r}, req'[s].who \in Owners
          PROVE  \A q \in R \ {s} : req'[q].who \notin req'[s].seen
      <4>1. req'[s].seen \subseteq {req'[s].who}
        <5>1. Ordered(req[s]) BY DEF WaitInv
        <5> QED BY <1>0, <3>2, <5>1 DEF Moved, Ordered, Locking, At
      <4>2. \A q \in R \ {s} : req'[q].who # req'[s].who BY <1>0 DEF Locking
      <4> QED BY <4>1, <4>2
    <3> QED BY <3>1, <3>2
  <2> QED BY <2>1, <2>2
<1> QED BY <1>2, <1>3 DEF WaitInv

\* Only the end of a transfer makes an owner, of a row that transfer has locked.
LEMMA NewOwners == ASSUME IInv, IInv', [Next]_vars PROVE NewOwnersFree
<1> USE RoleAssumption DEF RoleAssumption
<1>1. ASSUME Owners' \subseteq Owners PROVE NewOwnersFree BY <1>1 DEF NewOwnersFree
<1>2. CASE UNCHANGED row BY <1>1, <1>2 DEF Owners
<1>3. ASSUME NEW p \in Persons, NEW role \in Assignable, NEW via, Insert(p, role, via)
      PROVE  NewOwnersFree
  BY <1>1, <1>3 DEF Insert, IInv, TypeOK, Owners
<1>4. ASSUME NEW r, NEW gone \in SUBSET Persons, Erased(r, gone) PROVE NewOwnersFree
  BY <1>1, <1>4 DEF Erased, NoRow, Owners
<1>5. ASSUME NEW r \in Reqs, Continue(r) PROVE NewOwnersFree
  <2>1. req[r] \in ReqType /\ Sound(req[r]) 
        /\ (~At(r, "idle") /\ ~At(r, "cascade") => req[r].who \in Persons)
    BY <1>5 DEF IInv, TypeOK, Sound, At
  <2>2. CASE RedeemPendingInvitation(r)
    <3>1. CASE UNCHANGED row BY <1>2, <3>1
    <3>2. CASE invite[req[r].who] # "none" /\ Insert(req[r].who, invite[req[r].who], "invitation")
      <4>1. req[r].who \in Persons /\ invite[req[r].who] \in Assignable
        BY <2>1, <2>2, <3>2 DEF RedeemPendingInvitation, At, IInv, TypeOK
      <4> QED BY <1>3, <3>2, <4>1
    <3> QED BY <2>2, <3>1, <3>2 DEF RedeemPendingInvitation
  <2>3. CASE SaveMembership(r)
    <3>1. req[r].who \in Persons /\ req[r].role \in Assignable
      BY <2>1, <2>3 DEF SaveMembership, At, Sound, Giving
    <3> QED BY <1>2, <1>3, <2>3, <3>1 DEF SaveMembership
  <2>4. CASE WriteRow(r)
    <3>1. req[r].op # "remove" => req[r].role # "owner"
      BY <2>1, <2>4 DEF WriteRow, At, Sound, Giving
    <3>2. row \in [Persons -> RowType] BY DEF IInv, TypeOK
    <3>3. CASE req[r].op = "remove"
      <4>1. row' = [row EXCEPT ![req[r].who] = NoRow] BY <2>4, <3>3 DEF WriteRow
      <4> QED BY <1>1, <3>2, <4>1 DEF NoRow, Owners
    <3>4. CASE req[r].op # "remove"
      <4>1. row' = [row EXCEPT ![req[r].who].role = req[r].role] BY <2>4, <3>4 DEF WriteRow
      <4> QED BY <1>1, <3>1, <3>2, <3>4, <4>1 DEF Owners, RowType
    <3> QED BY <3>3, <3>4
  <2>5. CASE Promote(r)
    <3>1. Owners' = {req[r].who} /\ req[r].who \in req[r].held
      BY <2>1, <2>5, PromoteOwners DEF Promote, At, Sound, Locking
    <3>2. \A s \in Reqs \ {r} : req'[s] = req[s] /\ req[r].held \cap req[s].held = {}
      BY <2>5 DEF Promote, Finish, IInv, TypeOK, Locks
    <3>3. req'[r].held = {} BY <2>5 DEF Promote, Finish, IInv, TypeOK, Idle
    <3> QED BY <3>1, <3>2, <3>3 DEF NewOwnersFree
  <2>6. CASE EraseUser(r) BY <1>4, <2>1, <2>6 DEF EraseUser, At
  <2> QED BY <1>2, <1>5, <2>2, <2>3, <2>4, <2>5, <2>6
          DEF Continue, LookupMembership, LockRow, CountOwners, LockTarget, FindOwners,
              DemoteOwners, PromoteFails
<1>6. ASSUME NEW p \in Persons, NewMember(p) PROVE NewOwnersFree
  <2>1. invite[p] # "none" => invite[p] \in Assignable BY DEF IInv, TypeOK
  <2> QED BY <1>2, <1>3, <1>6, <2>1
          DEF NewMember, CreateMembership, CreateNativeInvitation, RevokePendingInvitation,
              RedeemNativeInvitation
<1>7. ASSUME NEW r \in Reqs, Cascade(r) PROVE NewOwnersFree
  BY <1>2, <1>4, <1>7
  DEF Cascade, DeleteOtherOrganization, CascadeRow, CascadeCommit, Elsewhere
<1> QED BY <1>2, <1>5, <1>6, <1>7
        DEF Next, vars, InvitationsExpire, RequestFails, Begin, SsoLogin, UpdateRole,
            Remove, TransferOwnership, DeleteUser

\* One request moves, the others stay.
LEMMA OneMoved ==
    ASSUME IInv, NEW r \in Reqs, NEW q, req' = [req EXCEPT ![r] = q], Moved(r)
    PROVE  \A s \in Reqs : Moved(s)
BY DEF IInv, TypeOK, Moved

\* The steps move requests this way: those that end one ...
LEMMA FinishMoved == ASSUME IInv, NEW r \in Reqs, Finish(r) PROVE \A s \in Reqs : Moved(s)
<1>1. Moved(r) BY DEF Finish, IInv, TypeOK, Moved, Idle, Locking
<1> QED BY <1>1, OneMoved DEF Finish

\* ... that send one on ...
LEMMA GotoMoved ==
    ASSUME IInv, NEW r \in Reqs, NEW pc, pc \notin Locking, Goto(r, pc)
    PROVE  \A s \in Reqs : Moved(s)
<1>1. PICK q : q = [req[r] EXCEPT !.pc = pc] OBVIOUS
<1>2. q.pc = pc BY <1>1 DEF IInv, TypeOK, ReqType
<1>3. req' = [req EXCEPT ![r] = q] BY <1>1 DEF Goto
<1>4. Moved(r) BY <1>2, <1>3 DEF IInv, TypeOK, Moved
<1> QED BY <1>3, <1>4, OneMoved

\* ... that start one ...
LEMMA StartMoved ==
    ASSUME IInv, NEW r \in Reqs, NEW op, NEW pc, pc \notin Locking, NEW p, NEW role,
           Start(r, op, pc, p, role)
    PROVE  \A s \in Reqs : Moved(s)
<1>1. PICK q : q = [Idle EXCEPT !.op = op, !.pc = pc, !.who = p, !.role = role] OBVIOUS
<1>2. q.pc = pc BY <1>1 DEF Idle
<1>3. req' = [req EXCEPT ![r] = q] BY <1>1 DEF Start
<1>4. Moved(r) BY <1>2, <1>3 DEF IInv, TypeOK, Moved
<1> QED BY <1>3, <1>4, OneMoved

\* Rows go that none of the requests that stay has locked.
LEMMA EndedMoved ==
    ASSUME IInv, NEW rs \in SUBSET Reqs, NEW gone, Ended(rs, gone),
           \A r \in Reqs \ rs : req[r].held \cap gone = {}
    PROVE  \A r \in Reqs : Moved(r)
<1> SUFFICES ASSUME NEW r \in Reqs PROVE Moved(r) OBVIOUS
<1>1. CASE r \in rs BY <1>1 DEF Ended, Moved, Idle, Locking
<1>2. CASE r \notin rs
  <2>1. PICK q \in ReqType : q = req[r] BY DEF IInv, TypeOK
  <2>2. req'[r] = [q EXCEPT !.seen = q.seen \ gone] BY <1>2, <2>1 DEF Ended
  <2>3. /\ req'[r].pc = q.pc /\ req'[r].who = q.who /\ req'[r].held = q.held
        /\ req'[r].seen = q.seen \ gone
    BY <2>2 DEF ReqType
  <2> QED BY <1>2, <2>1, <2>3 DEF Moved
<1> QED BY <1>1, <1>2

\* The statements of a request.
LEMMA ContinueMoved ==
    ASSUME IInv, NEW r \in Reqs, Continue(r), \A s \in Reqs : Ordered(req[s])
    PROVE  \A s \in Reqs : Moved(s)
<1> DEFINE p == req[r].who
<1>1. req[r] \in ReqType /\ Sound(req[r]) /\ Ordered(req[r]) BY DEF IInv, TypeOK
<1>2. CASE RedeemPendingInvitation(r) \/ SaveMembership(r) \/ LookupMembership(r)
  BY <1>2, FinishMoved, GotoMoved
  DEF RedeemPendingInvitation, SaveMembership, LookupMembership, Locking
<1>3. CASE LockRow(r)
  <2>1. ASSUME NEW pc \in {"count", "write"},
               req' = [req EXCEPT ![r] = [req[r] EXCEPT !.pc = pc, !.held = {p}]]
        PROVE  \A s \in Reqs : Moved(s)
    <3>1. PICK q : q = [req[r] EXCEPT !.pc = pc, !.held = {p}] OBVIOUS
    <3>2. q.pc = pc /\ q.held = {q.who} BY <1>1, <3>1 DEF ReqType
    <3>3. req' = [req EXCEPT ![r] = q] BY <2>1, <3>1
    <3>4. Moved(r) BY <3>2, <3>3 DEF IInv, TypeOK, Moved
    <3> QED BY <3>3, <3>4, OneMoved
  <2>2. CASE IsMember(p) /\ p \in Owners BY <1>3, <2>1, <2>2 DEF LockRow
  <2>3. CASE IsMember(p) /\ p \notin Owners BY <1>3, <2>1, <2>3 DEF LockRow
  <2>4. CASE ~IsMember(p) BY <1>3, <2>4, FinishMoved DEF LockRow
  <2> QED BY <2>2, <2>3, <2>4
<1>4. CASE CountOwners(r)
  <2>1. CASE Goto(r, "write")
    <3>1. PICK q : q = [req[r] EXCEPT !.pc = "write"] OBVIOUS
    <3>2. q.pc = "write" /\ q.held = {q.who}
      BY <1>1, <1>4, <3>1 DEF ReqType, CountOwners, At, Ordered
    <3>3. req' = [req EXCEPT ![r] = q] BY <2>1, <3>1 DEF Goto
    <3>4. Moved(r) BY <3>2, <3>3 DEF IInv, TypeOK, Moved
    <3> QED BY <3>3, <3>4, OneMoved
  <2> QED BY <1>4, <2>1, FinishMoved DEF CountOwners
<1>5. CASE WriteRow(r)
  <2>1. CASE Finish(r) BY <2>1, FinishMoved
  <2>2. CASE Ended({r} \cup {s \in Reqs : ById(s, p)}, {p})
    <3>1. p \in req[r].held BY <1>1, <1>5 DEF WriteRow, At, Sound, Locking
    <3>2. \A s \in Reqs \ {r} : req[s].held \cap {p} = {} BY <3>1 DEF IInv, Locks
    <3> DEFINE over == {r} \cup {s \in Reqs : ById(s, p)}
    <3>3. over \in SUBSET Reqs /\ r \in over OBVIOUS
    <3>4. Ended(over, {p}) BY <2>2
    <3> HIDE DEF over
    <3> QED BY <3>2, <3>3, <3>4, EndedMoved
  <2> QED BY <1>5, <2>1, <2>2 DEF WriteRow
<1>6. CASE LockTarget(r)
  <2>1. CASE IsMember(p)
    <3>1. PICK q : q = [req[r] EXCEPT !.pc = "demote", !.held = {p}] OBVIOUS
    <3>2. q.pc = "demote" /\ q.held = {q.who} BY <1>1, <3>1 DEF ReqType
    <3>3. req' = [req EXCEPT ![r] = q] BY <1>6, <2>1, <3>1 DEF LockTarget
    <3>4. Moved(r) BY <3>2, <3>3 DEF IInv, TypeOK, Moved
    <3> QED BY <3>3, <3>4, OneMoved
  <2> QED BY <1>6, <2>1, FinishMoved DEF LockTarget
<1>7. CASE FindOwners(r)
  <2>1. PICK q : q = [req[r] EXCEPT !.pc = "demoting", !.seen = Owners] OBVIOUS
  <2>2. q.pc = "demoting" /\ q.seen = Owners /\ q.who = req[r].who /\ q.held = req[r].held
    BY <1>1, <2>1 DEF ReqType
  <2>3. req' = [req EXCEPT ![r] = q] BY <1>7, <2>1 DEF FindOwners
  <2>4. Moved(r) BY <1>7, <2>2, <2>3 DEF IInv, TypeOK, Moved, FindOwners
  <2> QED BY <2>3, <2>4, OneMoved
<1>8. CASE DemoteOwners(r)
  <2>1. PICK q : q = [req[r] EXCEPT !.pc = "promote", !.seen = Demoted(r),
                                    !.held = req[r].held \cup Demoted(r)]
    OBVIOUS
  <2>2. q.pc = "promote" /\ q.who = req[r].who /\ q.held = req[r].held \cup q.seen
    BY <1>1, <2>1 DEF ReqType
  <2>3. req' = [req EXCEPT ![r] = q] BY <1>8, <2>1 DEF DemoteOwners
  <2>4. Moved(r) BY <1>8, <2>2, <2>3 DEF IInv, TypeOK, Moved, DemoteOwners
  <2> QED BY <2>3, <2>4, OneMoved
<1>9. CASE Promote(r) \/ PromoteFails(r) BY <1>9, FinishMoved DEF Promote, PromoteFails
<1>10. CASE EraseUser(r)
  <2>1. req[r].held = {} BY <1>1, <1>10 DEF EraseUser, At, Sound, Locking
  <2>2. \A s \in Reqs : req[s].held \cap {p} = {} BY <1>10, <2>1 DEF EraseUser, Free
  <2> DEFINE over == {r} \cup {s \in Reqs : \E x \in {p} : ById(s, x) \/ ForUser(s, x)}
  <2>3. over \in SUBSET Reqs /\ Ended(over, {p}) BY <1>10 DEF EraseUser, Erased
  <2> HIDE DEF over
  <2> QED BY <2>2, <2>3, EndedMoved
<1> QED BY <1>2, <1>3, <1>4, <1>5, <1>6, <1>7, <1>8, <1>9, <1>10 DEF Continue

\* ... and so every step, but for ownership, keeps what the order rests on.
LEMMA NextMoved ==
    ASSUME IInv, [Next]_vars, \A s \in Reqs : Ordered(req[s]) PROVE \A s \in Reqs : Moved(s)
<1>1. CASE UNCHANGED req BY <1>1 DEF Moved
<1>2. ASSUME NEW r \in Reqs, Continue(r) PROVE \A s \in Reqs : Moved(s)
  BY <1>2, ContinueMoved
<1>3. ASSUME NEW r \in Reqs, NEW p \in Persons, Begin(r, p) PROVE \A s \in Reqs : Moved(s)
  BY <1>3, StartMoved DEF Begin, SsoLogin, UpdateRole, Remove, TransferOwnership, DeleteUser, Locking
<1>4. ASSUME NEW r \in Reqs, RequestFails(r) PROVE \A s \in Reqs : Moved(s)
  BY <1>4, FinishMoved DEF RequestFails
<1>5. ASSUME NEW r \in Reqs, Cascade(r) PROVE \A s \in Reqs : Moved(s)
  <2>1. CASE DeleteOtherOrganization(r)
    BY <2>1, StartMoved DEF DeleteOtherOrganization, Locking
  <2>2. ASSUME NEW p \in Persons, CascadeRow(r, p) PROVE \A s \in Reqs : Moved(s)
    <3>1. PICK q : q = [req[r] EXCEPT !.held = @ \cup {p}] OBVIOUS
    <3>2. q.pc = "cascade" BY <2>2, <3>1 DEF CascadeRow, At, IInv, TypeOK, ReqType
    <3>3. req' = [req EXCEPT ![r] = q] BY <2>2, <3>1 DEF CascadeRow
    <3>4. Moved(r) BY <3>2, <3>3 DEF IInv, TypeOK, Moved, Locking
    <3> QED BY <3>3, <3>4, OneMoved
  <2>3. CASE CascadeCommit(r)
    <3> DEFINE over == {r} \cup {s \in Reqs : \E x \in Elsewhere : ById(s, x) \/ ForUser(s, x)}
    <3>1. over \in SUBSET Reqs /\ r \in over /\ Ended(over, Elsewhere)
      BY <2>3 DEF CascadeCommit, Erased
    <3>2. \A s \in Reqs \ {r} : req[s].held \cap Elsewhere = {} BY <2>3, AllLocked
    <3> HIDE DEF over
    <3> QED BY <3>1, <3>2, EndedMoved
  <2> QED BY <1>5, <2>1, <2>2, <2>3 DEF Cascade
<1>6. ASSUME NEW p \in Persons, NewMember(p) PROVE UNCHANGED req
  BY <1>6 DEF NewMember, CreateMembership, CreateNativeInvitation, RevokePendingInvitation,
              RedeemNativeInvitation
<1> QED BY <1>1, <1>2, <1>3, <1>4, <1>5, <1>6 DEF Next, vars, InvitationsExpire

\* Whoever waits for a row of a request that can go on waits for no circle.
LEMMA NoCycle == ASSUME WaitInv PROVE NoWaitCycle
<1> SUFFICES ASSUME NEW R \in SUBSET Reqs, R # {}, \A r \in R : req[r].pc # "cascade"
             PROVE  \E r \in R : \A s \in R \ {r} : Needs(r) \cap req[s].held = {}
  BY DEF NoWaitCycle, At
<1>0. \A r \in Reqs : Sound(req[r]) /\ Ordered(req[r]) BY DEF WaitInv, IInv
<1>1. \A r, s \in Reqs : r # s => req[r].held \cap req[s].held = {} BY DEF WaitInv, IInv, Locks
<1>2. ASSUME NEW r \in R, Needs(r) = {}
      PROVE  \E q \in R : \A s \in R \ {q} : Needs(q) \cap req[s].held = {}
  BY <1>2
<1>3. ASSUME NEW r \in R, req[r].pc = "promote"
      PROVE  \E q \in R : \A s \in R \ {q} : Needs(q) \cap req[s].held = {}
  <2>1. Needs(r) = OtherOwners(r) BY <1>3 DEF Needs
  <2>2. ASSUME NEW s \in R \ {r}, NEW p \in OtherOwners(r), p \in req[s].held
        PROVE  \E q \in R : \A u \in R \ {q} : Needs(q) \cap req[u].held = {}
    <3>1. p \in Owners /\ req[s].pc \in Locking BY <1>0, <2>2 DEF OtherOwners, Sound
    <3>2. Owners = {p} BY <3>1 DEF WaitInv, IInv, AtMostOneOwner
    <3>3. CASE req[s].pc \in {"count", "write", "demote"}
      <4>1. Needs(s) = {} BY <3>3 DEF Needs
      <4> QED BY <1>2, <4>1
    <3>4. CASE req[s].pc = "demoting"
      <4>1. req[s].who = p /\ req[s].seen \subseteq {p} BY <1>0, <2>2, <3>1, <3>4 DEF Ordered
      <4>2. Needs(s) \subseteq req[s].held BY <2>2, <3>4, <4>1 DEF Needs
      <4> QED BY <1>1, <4>2
    <3>5. CASE req[s].pc = "promote"
      <4>1. p = req[s].who \/ p \in req[s].seen BY <1>0, <2>2, <3>5 DEF Ordered
      <4>2. OtherOwners(s) = {} BY <3>2, <4>1 DEF OtherOwners, Demoted
      <4>3. Needs(s) = {} BY <3>5, <4>2 DEF Needs
      <4> QED BY <1>2, <4>3
    <3> QED BY <3>1, <3>3, <3>4, <3>5 DEF Locking
  <2> QED BY <2>1, <2>2
<1>4. CASE \A r \in R : req[r].pc # "promote" /\ Needs(r) # {}
  <2>1. \A r \in R : req[r].pc \in {"lock", "target", "erase", "demoting"} BY <1>4 DEF Needs
  <2>2. \A s \in R : req[s].pc # "demoting" => req[s].held = {}
    BY <1>0, <2>1 DEF Sound, Locking
  <2>3. \A s \in R : req[s].pc = "demoting" => req[s].held = {req[s].who}
    BY <1>0 DEF Ordered
  <2> DEFINE D == {r \in R : req[r].pc = "demoting"}
  <2>4. CASE D = {} BY <2>2, <2>4
  <2>5. CASE D # {}
    <3>1. D \in (SUBSET Demoting) \ {{}} BY <2>5 DEF Demoting, At
    <3>2. PICK r \in D : \A s \in D \ {r} : req[s].who \notin req[r].seen
      BY <3>1 DEF WaitInv, DemotingOrdered
    <3>3. Needs(r) = req[r].seen BY <3>2 DEF Needs
    <3> QED BY <2>2, <2>3, <3>2, <3>3
  <2> QED BY <2>4, <2>5
<1> QED BY <1>2, <1>3, <1>4

\* PostgreSQL never has to end a circle of these requests: of any of them in flight, one
\* waits for no row that another has locked, for any number of persons and requests.
THEOREM NoDeadlock == Spec => []NoWaitCycle
<1>1. Init => WaitInv
  <2> SUFFICES ASSUME Init PROVE WaitInv OBVIOUS
  <2>1. IInv /\ \A r \in Reqs : req[r] = Idle BY InitInv DEF Init
  <2>2. (\A r \in Reqs : Ordered(req[r])) /\ Demoting = {}
    BY <2>1 DEF Ordered, Demoting, At, Idle
  <2> QED BY <2>1, <2>2 DEF WaitInv, DemotingOrdered
<1>2. WaitInv /\ IInv' /\ [Next]_vars => WaitInv'
  <2> SUFFICES ASSUME WaitInv, IInv', [Next]_vars PROVE WaitInv' OBVIOUS
  <2>1. NewOwnersFree BY NewOwners DEF WaitInv
  <2>2. \A r \in Reqs : Moved(r) BY NextMoved DEF WaitInv
  <2> QED BY <2>1, <2>2, DemotingKept
<1>3. WaitInv => NoWaitCycle BY NoCycle
<1> QED BY <1>1, <1>2, <1>3, Invariance, PTL DEF Spec

------------------------------------------------------------------------------
(* Chosen roles *)

\* A login that has gone on to change a role is about a row that a login provisioned, which
\* is there still: its removal would have ended what the login is about.
LoginSound(q) ==
    /\ q.pc \in {"target", "demote", "demoting", "promote"} => q.op # "jit"
    /\ q.op = "jit" /\ q.pc \in {"lock", "count", "write"} =>
           IsMember(q.who) /\ row[q.who].via = "jit"

LoginInv == \A r \in Reqs : LoginSound(req[r])

\* The row of a member is still there, provisioned as it was.
Stays(p) == IsMember(p) => row'[p].role # "none" /\ row'[p].via = row[p].via

\* A request that goes on with the row it was about.
LEMMA LoginGoesOn ==
    ASSUME LoginInv, NEW r \in Reqs, req[r].who \in Persons, Stays(req[r].who),
           req'[r].op = req[r].op, req'[r].who = req[r].who,
           \/ req'[r].pc = req[r].pc
           \/ req'[r].pc \in {"count", "write"} /\ req[r].pc \in {"lock", "count"}
           \/ req'[r].pc \in {"demote", "demoting", "promote"}
              /\ req[r].pc \in {"target", "demote", "demoting"}
    PROVE  LoginSound(req[r])'
<1>1. LoginSound(req[r]) BY DEF LoginInv
<1>2. req'[r].pc \in {"target", "demote", "demoting", "promote"} => req'[r].op # "jit"
  BY <1>1 DEF LoginSound
<1>3. ASSUME req'[r].op = "jit", req'[r].pc \in {"lock", "count", "write"}
      PROVE  row'[req'[r].who].role # "none" /\ row'[req'[r].who].via = "jit"
  BY <1>1, <1>3 DEF LoginSound, Stays
<1> QED BY <1>2, <1>3 DEF LoginSound, IsMember

\* One that has ended.
LEMMA LoginOver == ASSUME NEW r \in Reqs, req'[r] = Idle PROVE LoginSound(req[r])'
BY DEF LoginSound, Idle

\* Most steps change one request at most, and no member's row but its role.
LEMMA LoginStays ==
    ASSUME IInv, LoginInv, \A p \in Persons : Stays(p), NEW r \in Reqs,
           \A s \in Reqs \ {r} : req'[s] = req[s], LoginSound(req[r])'
    PROVE  LoginInv'
<1> SUFFICES ASSUME NEW s \in Reqs \ {r} PROVE LoginSound(req[s])' BY DEF LoginInv
<1>1. req[s].pc \notin {"idle", "cascade"} => req[s].who \in Persons BY DEF IInv, Sound
<1>2. CASE req[s].pc \in {"idle", "cascade"} BY <1>2 DEF LoginSound
<1>3. CASE req[s].pc \notin {"idle", "cascade"} BY <1>1, <1>3, LoginGoesOn
<1> QED BY <1>2, <1>3

\* What ends a request, or starts one, says nothing wrong of a login.
LEMMA LoginFinish ==
    ASSUME IInv, LoginInv, \A p \in Persons : Stays(p), NEW r \in Reqs, Finish(r)
    PROVE  LoginInv'
<1>1. req'[r] = Idle /\ \A s \in Reqs \ {r} : req'[s] = req[s] BY DEF Finish, IInv, TypeOK
<1> QED BY <1>1, LoginOver, LoginStays

LEMMA LoginStart ==
    ASSUME IInv, LoginInv, UNCHANGED row, NEW r \in Reqs, NEW op, NEW pc, NEW p, NEW role,
           Start(r, op, pc, p, role), op # "jit" \/ pc = "redeem"
    PROVE  LoginInv'
<1>1. PICK q : q = [Idle EXCEPT !.op = op, !.pc = pc, !.who = p, !.role = role] OBVIOUS
<1>2. q.op = op /\ q.pc = pc BY <1>1 DEF Idle
<1>3. req' = [req EXCEPT ![r] = q] BY <1>1 DEF Start
<1>4. req'[r] = q /\ \A s \in Reqs \ {r} : req'[s] = req[s] BY <1>3 DEF IInv, TypeOK
<1>5. LoginSound(req[r])' BY <1>2, <1>4 DEF LoginSound
<1>6. \A x \in Persons : Stays(x) BY DEF Stays, IsMember
<1> QED BY <1>4, <1>5, <1>6, LoginStays

\* Rows go whose requests end with them.
LEMMA LoginEnded ==
    ASSUME IInv, LoginInv, NEW rs \in SUBSET Reqs, NEW gone \in SUBSET Persons, Ended(rs, gone),
           \A p \in Persons \ gone : row'[p] = row[p],
           \A r \in Reqs \ rs : req[r].op = "jit" /\ req[r].pc \in {"lock", "count", "write"} =>
               req[r].who \notin gone
    PROVE  LoginInv'
<1> SUFFICES ASSUME NEW r \in Reqs PROVE LoginSound(req[r])' BY DEF LoginInv
<1>1. CASE r \in rs BY <1>1, LoginOver DEF Ended
<1>2. CASE r \notin rs
  <2>1. PICK q \in ReqType : q = req[r] BY DEF IInv, TypeOK
  <2>2. req'[r] = [q EXCEPT !.seen = q.seen \ gone] BY <1>2, <2>1 DEF Ended
  <2>3. req'[r].pc = q.pc /\ req'[r].who = q.who /\ req'[r].op = q.op BY <2>2 DEF ReqType
  <2>4. LoginSound(q) /\ Sound(q) BY <2>1 DEF LoginInv, IInv
  <2>5. CASE q.op = "jit" /\ q.pc \in {"lock", "count", "write"}
    <3>1. q.who \in Persons \ gone BY <1>2, <2>1, <2>4, <2>5 DEF Sound
    <3> QED BY <2>3, <2>4, <2>5, <3>1 DEF LoginSound, IsMember
  <2>6. CASE ~(q.op = "jit" /\ q.pc \in {"lock", "count", "write"})
    BY <2>3, <2>4, <2>6 DEF LoginSound
  <2> QED BY <2>5, <2>6
<1> QED BY <1>1, <1>2

\* The end of the requests about a person whose row goes.
LEMMA LoginErased ==
    ASSUME IInv, LoginInv, NEW c \in Reqs, NEW gone \in SUBSET Persons, Erased(c, gone)
    PROVE  LoginInv'
<1> DEFINE over == {c} \cup {s \in Reqs : \E x \in gone : ById(s, x) \/ ForUser(s, x)}
<1>1. over \in SUBSET Reqs /\ Ended(over, gone) BY DEF Erased
<1>2. \A p \in Persons \ gone : row'[p] = row[p] BY DEF Erased
<1>3. \A r \in Reqs \ over : req[r].op = "jit" => req[r].who \notin gone BY DEF ForUser
<1> HIDE DEF over
<1> QED BY <1>1, <1>2, <1>3, LoginEnded

\* An INSERT is of a person who had no row.
LEMMA InsertStays ==
    ASSUME IInv, NEW p \in Persons, ~IsMember(p), NEW role, NEW via, Insert(p, role, via)
    PROVE  \A q \in Persons : Stays(q)
BY DEF Insert, IInv, TypeOK, Stays, IsMember

\* The statements of a request.
LEMMA ContinueLogin ==
    ASSUME IInv, LoginInv, NEW r \in Reqs, Continue(r) PROVE LoginInv'
<1> DEFINE p == req[r].who
<1>1. req[r] \in ReqType /\ Sound(req[r]) /\ LoginSound(req[r]) BY DEF IInv, TypeOK, LoginInv
<1>2. p \in Persons
  BY <1>1 DEF Continue, Sound, At, RedeemPendingInvitation, SaveMembership, LookupMembership,
     LockRow, CountOwners, WriteRow, LockTarget, FindOwners, DemoteOwners, Promote,
     PromoteFails, EraseUser
<1>3. ASSUME UNCHANGED row PROVE \A q \in Persons : Stays(q) BY <1>3 DEF Stays, IsMember
<1>4. ASSUME NEW pc, Goto(r, pc), UNCHANGED row,
             \/ pc \in {"save", "lookup"}
             \/ pc = "lock" /\ IsMember(p) /\ row[p].via = "jit"
             \/ pc = "write" /\ At(r, "count")
      PROVE  LoginInv'
  <2>1. PICK q : q = [req[r] EXCEPT !.pc = pc] OBVIOUS
  <2>2. q.pc = pc /\ q.op = req[r].op /\ q.who = p BY <1>1, <2>1 DEF ReqType
  <2>3. req'[r] = q /\ \A s \in Reqs \ {r} : req'[s] = req[s]
    BY <1>4, <2>1 DEF Goto, IInv, TypeOK
  <2>4. LoginSound(req[r])' BY <1>1, <1>4, <2>2, <2>3 DEF LoginSound, IsMember, At
  <2> QED BY <1>3, <1>4, <2>3, <2>4, LoginStays
<1>5. ASSUME NEW pc, NEW seen, NEW held, UNCHANGED row,
             req' = [req EXCEPT ![r] = [req[r] EXCEPT !.pc = pc, !.seen = seen, !.held = held]],
             \/ pc \in {"count", "write"} /\ At(r, "lock")
             \/ pc \in {"demote", "demoting", "promote"}
                /\ req[r].pc \in {"target", "demote", "demoting"}
      PROVE  LoginInv'
  <2>1. PICK q : q = [req[r] EXCEPT !.pc = pc, !.seen = seen, !.held = held] OBVIOUS
  <2>2. q.pc = pc /\ q.op = req[r].op /\ q.who = p BY <1>1, <2>1 DEF ReqType
  <2>3. req'[r] = q /\ \A s \in Reqs \ {r} : req'[s] = req[s] BY <1>5, <2>1 DEF IInv, TypeOK
  <2>4. Stays(p) BY <1>2, <1>3, <1>5
  <2>5. LoginSound(req[r])' BY <1>2, <1>5, <2>2, <2>3, <2>4, LoginGoesOn DEF At
  <2> QED BY <1>3, <1>5, <2>3, <2>5, LoginStays
<1>6. CASE RedeemPendingInvitation(r)
  <2>1. CASE invite[p] = "none" BY <1>4, <1>6, <2>1 DEF RedeemPendingInvitation
  <2>2. CASE Finish(r) /\ UNCHANGED row BY <1>3, <2>2, LoginFinish
  <2>3. CASE Finish(r) /\ ~IsMember(p) /\ Insert(p, invite[p], "invitation")
    BY <1>2, <2>3, InsertStays, LoginFinish
  <2> QED BY <1>6, <2>1, <2>2, <2>3 DEF RedeemPendingInvitation
<1>7. CASE SaveMembership(r)
  BY <1>2, <1>4, <1>7, InsertStays, LoginFinish DEF SaveMembership
<1>8. CASE LookupMembership(r)
  <2>1. CASE Reconciles(row[p], req[r].role)
    BY <1>4, <1>8, <2>1 DEF LookupMembership, Reconciles, IsMember
  <2>2. CASE Finish(r) BY <1>3, <1>8, <2>2, LoginFinish DEF LookupMembership
  <2> QED BY <1>8, <2>1, <2>2 DEF LookupMembership
<1>9. CASE LockRow(r)
  <2>1. CASE Finish(r) BY <1>3, <1>9, <2>1, LoginFinish DEF LockRow
  <2>2. ASSUME NEW pc \in {"count", "write"},
               req' = [req EXCEPT ![r] = [req[r] EXCEPT !.pc = pc, !.held = {p}]]
        PROVE  LoginInv'
    <3>1. [req[r] EXCEPT !.pc = pc, !.held = {p}]
            = [req[r] EXCEPT !.pc = pc, !.seen = req[r].seen, !.held = {p}]
      BY <1>1 DEF ReqType
    <3> QED BY <1>5, <1>9, <2>2, <3>1 DEF LockRow
  <2>3. CASE IsMember(p) /\ p \in Owners BY <1>9, <2>2, <2>3 DEF LockRow
  <2>4. CASE IsMember(p) /\ p \notin Owners BY <1>9, <2>2, <2>4 DEF LockRow
  <2> QED BY <1>9, <2>1, <2>3, <2>4 DEF LockRow
<1>10. CASE CountOwners(r) BY <1>3, <1>4, <1>10, LoginFinish DEF CountOwners
<1>11. CASE WriteRow(r)
  <2>1. CASE req[r].op = "remove"
    <3> DEFINE over == {r} \cup {s \in Reqs : ById(s, p)}
    <3>1. over \in SUBSET Reqs /\ r \in over /\ Ended(over, {p}) BY <1>11, <2>1 DEF WriteRow
    <3>2. \A x \in Persons \ {p} : row'[x] = row[x] BY <1>11, <2>1 DEF WriteRow, IInv, TypeOK
    <3>3. \A s \in Reqs \ over : req[s].pc \in {"lock", "count", "write"} =>
             req[s].who \notin {p}
      <4>1. p \in req[r].held BY <1>1, <1>11 DEF WriteRow, At, Sound, Locking
      <4>2. \A s \in Reqs \ {r} : req[s].pc \in {"count", "write"} => req[s].who \in req[s].held
        BY DEF IInv, Sound, Locking
      <4> QED BY <4>1, <4>2 DEF IInv, Locks, ById, At
    <3> HIDE DEF over
    <3> QED BY <1>2, <3>1, <3>2, <3>3, LoginEnded
  <2>2. CASE req[r].op # "remove"
    <3>1. req[r].role # "none"
      BY <1>1, <1>11, <2>2, RoleAssumption DEF WriteRow, At, Sound, Giving, RoleAssumption
    <3>2. row' = [row EXCEPT ![p].role = req[r].role] /\ Finish(r)
      BY <1>11, <2>2 DEF WriteRow
    <3>3. \A q \in Persons : Stays(q)
      BY <1>2, <3>1, <3>2 DEF IInv, TypeOK, RowType, Stays, IsMember
    <3> QED BY <3>2, <3>3, LoginFinish
  <2> QED BY <2>1, <2>2
<1>12. CASE LockTarget(r)
  <2>1. CASE Finish(r) BY <1>3, <1>12, <2>1, LoginFinish DEF LockTarget
  <2>2. CASE req' = [req EXCEPT ![r] = [req[r] EXCEPT !.pc = "demote", !.held = {p}]]
    <3>1. [req[r] EXCEPT !.pc = "demote", !.held = {p}]
            = [req[r] EXCEPT !.pc = "demote", !.seen = req[r].seen, !.held = {p}]
      BY <1>1 DEF ReqType
    <3> QED BY <1>5, <1>12, <2>2, <3>1 DEF LockTarget, At
  <2> QED BY <1>12, <2>1, <2>2 DEF LockTarget
<1>13. CASE FindOwners(r)
  <2>1. PICK seen : seen = Owners OBVIOUS
  <2>2. req' = [req EXCEPT ![r] = [req[r] EXCEPT !.pc = "demoting", !.seen = seen]]
    BY <1>13, <2>1 DEF FindOwners
  <2>3. [req[r] EXCEPT !.pc = "demoting", !.seen = seen]
          = [req[r] EXCEPT !.pc = "demoting", !.seen = seen, !.held = req[r].held]
    BY <1>1 DEF ReqType
  <2>4. UNCHANGED row /\ req[r].pc = "demote" BY <1>13 DEF FindOwners, At
  <2>5. PICK held : held = req[r].held OBVIOUS
  <2>6. req' = [req EXCEPT ![r] = [req[r] EXCEPT !.pc = "demoting", !.seen = seen, !.held = held]]
    BY <2>2, <2>3, <2>5
  <2> QED BY <1>5, <2>4, <2>6
<1>14. CASE DemoteOwners(r) BY <1>5, <1>14 DEF DemoteOwners, At
<1>15. CASE Promote(r)
  <2>1. \A q \in Persons : row'[q].via = row[q].via
    BY <1>15 DEF Promote, IInv, TypeOK, RowType
  <2>2. \A q \in Persons : IsMember(q) => row'[q].role # "none"
    BY <1>15, PromoteOwners DEF IsMember
  <2>3. \A q \in Persons : Stays(q) BY <2>1, <2>2 DEF Stays
  <2> QED BY <1>15, <2>3, LoginFinish DEF Promote
<1>16. CASE PromoteFails(r) BY <1>3, <1>16, LoginFinish DEF PromoteFails
<1>17. CASE EraseUser(r) BY <1>2, <1>17, LoginErased DEF EraseUser
<1> QED BY <1>6, <1>7, <1>8, <1>9, <1>10, <1>11, <1>12, <1>13, <1>14, <1>15, <1>16, <1>17
        DEF Continue

\* Every step keeps what the logins rely on.
LEMMA NextLogin == ASSUME IInv, LoginInv, [Next]_vars PROVE LoginInv'
<1>1. ASSUME UNCHANGED req, \A p \in Persons : Stays(p) PROVE LoginInv'
  <2> SUFFICES ASSUME NEW s \in Reqs PROVE LoginSound(req[s])' BY DEF LoginInv
  <2>1. req[s].pc \notin {"idle", "cascade"} => req[s].who \in Persons BY DEF IInv, Sound
  <2>2. CASE req[s].pc \in {"idle", "cascade"} BY <1>1, <2>2 DEF LoginSound
  <2>3. CASE req[s].pc \notin {"idle", "cascade"} BY <1>1, <2>1, <2>3, LoginGoesOn
  <2> QED BY <2>2, <2>3
<1>2. ASSUME UNCHANGED row PROVE \A p \in Persons : Stays(p) BY <1>2 DEF Stays, IsMember
<1>3. ASSUME NEW p \in Persons, NewMember(p) PROVE LoginInv'
  <2>1. UNCHANGED req
    BY <1>3 DEF NewMember, CreateMembership, CreateNativeInvitation, RevokePendingInvitation,
                RedeemNativeInvitation
  <2>2. \A q \in Persons : Stays(q)
    BY <1>2, <1>3, InsertStays DEF NewMember, CreateMembership, CreateNativeInvitation,
       RevokePendingInvitation, RedeemNativeInvitation
  <2> QED BY <1>1, <2>1, <2>2
<1>4. ASSUME NEW r \in Reqs, Continue(r) PROVE LoginInv' BY <1>4, ContinueLogin
<1>5. ASSUME NEW r \in Reqs, RequestFails(r) PROVE LoginInv'
  BY <1>2, <1>5, LoginFinish DEF RequestFails
<1>6. ASSUME NEW r \in Reqs, NEW p \in Persons, Begin(r, p) PROVE LoginInv'
  BY <1>6, LoginStart DEF Begin, SsoLogin, UpdateRole, Remove, TransferOwnership, DeleteUser
<1>7. ASSUME NEW r \in Reqs, Cascade(r) PROVE LoginInv'
  <2>1. CASE DeleteOtherOrganization(r) BY <2>1, LoginStart DEF DeleteOtherOrganization
  <2>2. ASSUME NEW p \in Persons, CascadeRow(r, p) PROVE LoginInv'
    <3>1. PICK q : q = [req[r] EXCEPT !.held = @ \cup {p}] OBVIOUS
    <3>2. q.pc = "cascade" BY <2>2, <3>1 DEF CascadeRow, At, IInv, TypeOK, ReqType
    <3>3. req'[r] = q /\ \A s \in Reqs \ {r} : req'[s] = req[s]
      BY <2>2, <3>1 DEF CascadeRow, IInv, TypeOK
    <3>4. LoginSound(req[r])' BY <3>2, <3>3 DEF LoginSound
    <3> QED BY <1>2, <2>2, <3>3, <3>4, LoginStays DEF CascadeRow
  <2>3. CASE CascadeCommit(r) BY <2>3, LoginErased DEF CascadeCommit, Elsewhere
  <2> QED BY <1>7, <2>1, <2>2, <2>3 DEF Cascade
<1>8. CASE InvitationsExpire \/ UNCHANGED vars
  BY <1>1, <1>2, <1>8 DEF InvitationsExpire, vars
<1> QED BY <1>3, <1>4, <1>5, <1>6, <1>7, <1>8 DEF Next

\* A login that goes on, or ends, changes no role but one that a login gave.
LEMMA LoginChoice ==
    ASSUME IInv, LoginInv, [Next]_vars, NEW r \in Reqs, NEW p \in Persons,
           req[r].op = "jit", req'[r].pc # req[r].pc, IsMember(p), row[p].via # "jit"
    PROVE  row'[p] = row[p] \/ home'[p] = "none"
<1>0. LoginSound(req[r]) /\ Sound(req[r]) /\ req[r] \in ReqType BY DEF LoginInv, IInv, TypeOK
<1>1. CASE UNCHANGED row BY <1>1
<1>2. ASSUME NEW s, NEW gone \in SUBSET Persons, Erased(s, gone)
      PROVE  row'[p] = row[p] \/ home'[p] = "none"
  BY <1>2 DEF Erased
<1>3. ASSUME NEW s \in Reqs, Continue(s) PROVE row'[p] = row[p] \/ home'[p] = "none"
  <2>0. Sound(req[s]) BY DEF IInv
  <2>1. CASE RedeemPendingInvitation(s) \/ SaveMembership(s)
    <3>1. CASE UNCHANGED row BY <3>1
    <3>2. ASSUME NEW role, NEW via, ~IsMember(req[s].who), Insert(req[s].who, role, via)
          PROVE  row'[p] = row[p]
      BY <3>2 DEF Insert, IInv, TypeOK, IsMember
    <3> QED BY <2>1, <3>1, <3>2 DEF RedeemPendingInvitation, SaveMembership
  <2>2. CASE WriteRow(s)
    <3>1. CASE req[s].who # p BY <2>2, <3>1 DEF WriteRow, IInv, TypeOK
    <3>2. CASE req[s].who = p
      <4>1. s # r BY <1>0, <2>2, <3>2 DEF WriteRow, At, LoginSound
      <4>2. ~ById(r, p) BY <1>0 DEF ById, At, LoginSound
      <4>3. CASE Finish(s) BY <4>1, <4>3 DEF Finish, IInv, TypeOK
      <4>4. CASE Ended({s} \cup {u \in Reqs : ById(u, p)}, {p})
        <5>1. req'[r] = [req[r] EXCEPT !.seen = @ \ {p}] BY <4>1, <4>2, <4>4 DEF Ended
        <5> QED BY <1>0, <5>1 DEF ReqType
      <4> QED BY <2>2, <3>2, <4>3, <4>4 DEF WriteRow
    <3> QED BY <3>1, <3>2
  <2>3. CASE Promote(s)
    <3>1. s # r BY <1>0, <2>3 DEF Promote, At, LoginSound
    <3> QED BY <2>3, <3>1 DEF Promote, Finish, IInv, TypeOK
  <2>4. CASE EraseUser(s)
    <3>1. req[s].who \in Persons BY <2>0, <2>4 DEF EraseUser, At, Sound
    <3> QED BY <1>2, <2>4, <3>1 DEF EraseUser
  <2> QED BY <1>1, <1>3, <2>1, <2>2, <2>3, <2>4
          DEF Continue, LookupMembership, LockRow, CountOwners, LockTarget, FindOwners,
              DemoteOwners, PromoteFails
<1>4. ASSUME NEW s \in Reqs, Cascade(s) PROVE row'[p] = row[p] \/ home'[p] = "none"
  BY <1>1, <1>2, <1>4
  DEF Cascade, DeleteOtherOrganization, CascadeRow, CascadeCommit, Elsewhere
<1>5. ASSUME NEW q \in Persons, NewMember(q) PROVE FALSE
  BY <1>5 DEF NewMember, CreateMembership, CreateNativeInvitation, RevokePendingInvitation,
              RedeemNativeInvitation
<1> QED BY <1>1, <1>3, <1>4, <1>5
        DEF Next, vars, InvitationsExpire, RequestFails, Begin, SsoLogin, UpdateRole,
            Remove, TransferOwnership, DeleteUser

\* A login never changes the role of an invitation or of POST /v1/memberships, for any
\* number of logins, redemptions, removals and erasures.
THEOREM RolesStayChosen == Spec => ChosenRoleKept
<1> DEFINE Kept == \A r \in Reqs, p \in Persons :
              req[r].op = "jit" /\ req'[r].pc # req[r].pc /\ IsMember(p) /\ row[p].via # "jit"
                 => row'[p] = row[p] \/ home'[p] = "none"
<1>1. Init => LoginInv BY DEF Init, LoginInv, LoginSound, Idle
<1>2. IInv /\ LoginInv /\ [Next]_vars => LoginInv' BY NextLogin
<1>3. IInv /\ LoginInv /\ [Next]_vars => [Kept]_vars BY LoginChoice
<1>4. Spec => [][Kept]_vars
  <2> HIDE DEF Kept
  <2> QED BY <1>1, <1>2, <1>3, Invariance, PTL DEF Spec
<1> QED BY <1>4 DEF ChosenRoleKept
=============================================================================
