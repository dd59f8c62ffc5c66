-------------------------- MODULE NodeRemovalProofs --------------------------
(* Theorems about NodeRemoval, for any nodes and any disturbances.         *)
EXTENDS NodeRemoval, TLAPS

\* Every step spends a disturbance or keeps the books; either way they stay
\* what they are.
LEMMA SpendType ==
    ASSUME TypeOK, NEW kind \in Disturbances, Spend(kind)
    PROVE  happened' \in [Disturbances -> Nat] /\ budget' \in [Disturbances -> Nat]
  BY DEF TypeOK, Spend

LEMMA ReturnsType ==
    ASSUME TypeOK, NEW u \in Node, Returns(u)
    PROVE  /\ task' \in [Node -> Task] /\ at' \in [Node -> Stage]
           /\ todo' \in [Node -> SUBSET Node] /\ node' \in [Node -> Node]
           /\ attempt' \in [Node -> 0 .. 2]
           /\ status' \in [Node -> {"none", "success", "failed"}] /\ blamed' \subseteq Node
           /\ result' \in [Node -> {"none", "success"}]
  <1>1. todo' \in [Node -> SUBSET Node]
    BY DEF TypeOK, Returns
  <1>2. CASE todo'[u] = {}
    BY <1>1, <1>2 DEF TypeOK, Returns, Goto, Stage
  <1>3. CASE todo'[u] # {}
    BY <1>1, <1>3 DEF TypeOK, Returns, Goto, Stage
  <1>4. QED BY <1>2, <1>3

LEMMA RaisesType ==
    ASSUME TypeOK, NEW u \in Node, Raises(u)
    PROVE  /\ task' \in [Node -> Task] /\ at' \in [Node -> Stage]
           /\ todo' \in [Node -> SUBSET Node] /\ node' \in [Node -> Node]
           /\ attempt' \in [Node -> 0 .. 2]
           /\ status' \in [Node -> {"none", "success", "failed"}] /\ blamed' \subseteq Node
           /\ result' \in [Node -> {"none", "success"}]
  BY DEF TypeOK, Raises, Goto, Stage

LEMMA TriesAgainType ==
    ASSUME TypeOK, NEW u \in Node, TriesAgain(u)
    PROVE  /\ task' \in [Node -> Task] /\ at' \in [Node -> Stage]
           /\ todo' \in [Node -> SUBSET Node] /\ node' \in [Node -> Node]
           /\ attempt' \in [Node -> 0 .. 2]
           /\ status' \in [Node -> {"none", "success", "failed"}] /\ blamed' \subseteq Node
           /\ result' \in [Node -> {"none", "success"}]
  BY DEF TypeOK, TriesAgain

LEMMA BeginType ==
    ASSUME TypeOK, NEW u \in Node, NEW kind \in Task, NEW nodes \in SUBSET Node,
           Begin(u, kind, nodes)
    PROVE  /\ task' \in [Node -> Task] /\ todo' \in [Node -> SUBSET Node]
           /\ status' \in [Node -> {"none", "success", "failed"}]
           /\ result' \in [Node -> {"none", "success"}]
  BY DEF TypeOK, Begin

\* The variables have their types in every state that can be reached.
LEMMA TypeStep ==
    ASSUME TypeOK, [Next]_vars
    PROVE  TypeOK'
  <1> USE DEF juju, caller, bounds
  <1>1. ASSUME NEW u \in Node, RemoveUnit(u) PROVE TypeOK'
    <2>1. "remove" \in Disturbances BY DEF Disturbances
    <2>2. QED BY <1>1, <2>1, SpendType DEF RemoveUnit, TypeOK
  <1>2. ASSUME NEW u \in Node, NewLeader(u) PROVE TypeOK'
    <2>1. "leader" \in Disturbances BY DEF Disturbances
    <2>2. QED BY <1>2, <2>1, SpendType DEF NewLeader, TypeOK
  <1>3. ASSUME NEW n \in Node, Rejoin(n) PROVE TypeOK'
    <2>1. "rejoin" \in Disturbances BY DEF Disturbances
    <2>2. QED BY <1>3, <2>1, SpendType DEF Rejoin, TypeOK
  <1>4. ASSUME NEW u \in Node, StopHook(u) PROVE TypeOK'
    <2>1. "stop" \in Task /\ "maintaining" \in Stage BY DEF Task, Stage
    <2>2. QED BY <1>4, <2>1, BeginType DEF StopHook, Begin, Goto, TypeOK
  <1>5. ASSUME NEW u \in Node, UpdateRing(u) PROVE TypeOK'
    <2>1. /\ "update" \in Disturbances /\ "update-ring" \in Task
          /\ "maintaining" \in Stage /\ "finishing" \in Stage
      BY DEF Disturbances, Task, Stage
    <2>2. Unexpected \in SUBSET Node BY DEF Unexpected, Present
    <2>3. /\ task' \in [Node -> Task] /\ todo' \in [Node -> SUBSET Node]
          /\ status' \in [Node -> {"none", "success", "failed"}]
          /\ result' \in [Node -> {"none", "success"}]
      BY <1>5, <2>1, <2>2, BeginType DEF UpdateRing
    <2>4. at' \in [Node -> Stage] /\ node' \in [Node -> Node]
      BY <1>5, <2>1, <2>2 DEF UpdateRing, Goto, TypeOK
    <2>5. QED BY <1>5, <2>1, <2>3, <2>4, SpendType DEF UpdateRing, Begin, TypeOK
  <1>6. ASSUME NEW u \in Node, NEW n \in Node, DeleteNodeFromRing(u, n) PROVE TypeOK'
    <2>1. /\ "delete" \in Disturbances /\ "delete-node-from-ring" \in Task
          /\ "maintaining" \in Stage
      BY DEF Disturbances, Task, Stage
    <2>2. QED BY <1>6, <2>1, SpendType, BeginType DEF DeleteNodeFromRing, Begin, Goto, TypeOK
  <1>7. ASSUME NEW u \in Node, SetMaintenance(u) PROVE TypeOK'
    BY <1>7 DEF SetMaintenance, Goto, Stage, TypeOK
  <1>8. ASSUME NEW u \in Node, MaintenanceFails(u) PROVE TypeOK'
    <2>1. "other" \in Disturbances BY DEF Disturbances
    <2>2. happened' \in [Disturbances -> Nat] /\ budget' \in [Disturbances -> Nat]
      BY <1>8, <2>1, SpendType DEF MaintenanceFails, TypeOK
    <2>3. QED BY <1>8, <2>2, RaisesType DEF MaintenanceFails, TypeOK
  <1>9. ASSUME NEW u \in Node, Delete(u) PROVE TypeOK'
    <2>1. cib' \in [Node -> {"online", "maintenance", "gone"}]
      BY <1>9 DEF Delete, TypeOK
    <2>2. QED BY <1>9, <2>1, TriesAgainType, ReturnsType DEF Delete, TypeOK
  <1>10. ASSUME NEW u \in Node, NotFound(u) PROVE TypeOK'
    BY <1>10, ReturnsType DEF NotFound, TypeOK
  <1>11. ASSUME NEW u \in Node, DeleteFails(u) PROVE TypeOK'
    <2>1. {"retryable", "half", "other"} \subseteq Disturbances BY DEF Disturbances
    <2>2. happened' \in [Disturbances -> Nat] /\ budget' \in [Disturbances -> Nat]
      BY <1>11, <2>1, SpendType DEF DeleteFails
    <2>3. cib' \in [Node -> {"online", "maintenance", "gone"}]
      BY <1>11 DEF DeleteFails, TypeOK
    <2>4. TriesAgain(u) \/ Raises(u)
      <3>1. ASSUME RetryableError(u) PROVE TriesAgain(u) \/ Raises(u)
        BY <3>1 DEF RetryableError
      <3>2. QED BY <1>11, <3>1 DEF DeleteFails
    <2>5. QED
      BY <1>11, <2>2, <2>3, <2>4, TriesAgainType, RaisesType DEF DeleteFails, TypeOK
  <1>12. ASSUME NEW u \in Node, Finish(u) PROVE TypeOK'
    <2>1. status' \in [Node -> {"none", "success", "failed"}] BY <1>12 DEF Finish, TypeOK
    <2>2. result' \in [Node -> {"none", "success"}] BY <1>12 DEF Finish, TypeOK
    <2>3. purged' \subseteq Node
      <3>1. CASE task[u] # "stop" BY <1>12, <3>1 DEF Finish, TypeOK
      <3>2. CASE task[u] = "stop" BY <1>12, <3>2 DEF Finish, TypeOK
      <3>3. QED BY <3>1, <3>2
    <2>4. QED BY <1>12, <2>1, <2>2, <2>3 DEF Finish, Goto, Stage, TypeOK
  <1>13. ASSUME NEW u \in Node, Kill(u) PROVE TypeOK'
    <2>1. "kill" \in Disturbances BY DEF Disturbances
    <2>2. QED BY <1>13, <2>1, SpendType DEF Kill, Goto, Stage, TypeOK
  <1>14. ASSUME UNCHANGED vars PROVE TypeOK'
    BY <1>14 DEF vars, TypeOK
  <1>15. QED
    BY <1>1, <1>2, <1>3, <1>4, <1>5, <1>6, <1>7, <1>8, <1>9, <1>10, <1>11, <1>12,
       <1>13, <1>14 DEF Next, Works

LEMMA TypeInit == Init => TypeOK
  BY BudgetAssumption DEF Init, TypeOK, Task, Stage

\* Whatever the nodes and the disturbances are, the variables keep their
\* types; the loop of delete_node never counts below its last attempt.
THEOREM TypeCorrect == Spec => []TypeOK
  BY TypeInit, TypeStep, PTL DEF Spec

-----------------------------------------------------------------------------
(* MaintenanceIsAnnounced is inductive on its own, given the types.        *)

LEMMA AnnouncedStep ==
    ASSUME TypeOK, TypeOK', MaintenanceIsAnnounced, [Next]_vars
    PROVE  MaintenanceIsAnnounced'
  <1> USE DEF juju, caller, bounds
  <1> DEFINE Deletes(n) == \E u \in Node : at[u] = "deleting" /\ node[u] = n
  <1>1. SUFFICES ASSUME NEW n \in Node, cib'[n] = "maintenance"
                 PROVE  n \in blamed' \/ Deletes(n)'
    BY DEF MaintenanceIsAnnounced
  <1>2. blamed \subseteq blamed'
    BY DEF vars, Next, Works, RemoveUnit, NewLeader, Rejoin, StopHook, UpdateRing,
           DeleteNodeFromRing, Begin, SetMaintenance, MaintenanceFails, Raises, Returns,
           TriesAgain, Delete, NotFound, DeleteFails, RetryableError, Finish, Kill
  \* A node that was in maintenance before, and a caller that stays where it was.
  <1>3. ASSUME cib[n] = "maintenance",
               \A u \in Node : at[u] = "deleting" /\ node[u] = n
                   => n \in blamed' \/ (at'[u] = at[u] /\ node'[u] = node[u])
        PROVE  n \in blamed' \/ Deletes(n)'
    <2>1. n \in blamed \/ Deletes(n) BY <1>3 DEF MaintenanceIsAnnounced
    <2>2. QED BY <1>2, <1>3, <2>1
  <1>4. ASSUME cib' = cib, UNCHANGED <<at, node>> PROVE n \in blamed' \/ Deletes(n)'
    BY <1>1, <1>3, <1>4
  <1>5. ASSUME NEW u \in Node, at[u] = "idle", cib' = cib,
               \A v \in Node \ {u} : at'[v] = at[v] /\ node'[v] = node[v]
        PROVE  n \in blamed' \/ Deletes(n)'
    BY <1>1, <1>3, <1>5
  <1>6. ASSUME NEW u \in Node, RemoveUnit(u) \/ NewLeader(u) PROVE n \in blamed' \/ Deletes(n)'
    BY <1>4, <1>6 DEF RemoveUnit, NewLeader
  <1>7. ASSUME NEW m \in Node, Rejoin(m) PROVE n \in blamed' \/ Deletes(n)'
    <2>1. cib[n] = "maintenance" BY <1>1, <1>7 DEF Rejoin, TypeOK
    <2>2. QED BY <1>3, <1>7, <2>1 DEF Rejoin
  <1>8. ASSUME NEW u \in Node, StopHook(u) \/ UpdateRing(u) \/ \E m \in Node : DeleteNodeFromRing(u, m)
        PROVE  n \in blamed' \/ Deletes(n)'
    <2>1. at[u] = "idle" /\ cib' = cib
      BY <1>8 DEF StopHook, UpdateRing, DeleteNodeFromRing, Begin
    <2>2. \A v \in Node \ {u} : at'[v] = at[v] /\ node'[v] = node[v]
      <3>1. CASE UpdateRing(u)
        <4>1. CASE Unexpected = {} BY <3>1, <4>1 DEF UpdateRing, Goto, TypeOK
        <4>2. CASE Unexpected # {} BY <3>1, <4>2 DEF UpdateRing, Goto, TypeOK
        <4>3. QED BY <4>1, <4>2
      <3>2. CASE StopHook(u)
        <4>1. at' = [at EXCEPT ![u] = "maintaining"] /\ node' = [node EXCEPT ![u] = u]
          BY <3>2 DEF StopHook, Goto
        <4>2. QED BY <4>1 DEF TypeOK
      <3>3. ASSUME NEW m \in Node, DeleteNodeFromRing(u, m)
            PROVE  \A v \in Node \ {u} : at'[v] = at[v] /\ node'[v] = node[v]
        <4>1. at' = [at EXCEPT ![u] = "maintaining"] /\ node' = [node EXCEPT ![u] = m]
          BY <3>3 DEF DeleteNodeFromRing, Goto
        <4>2. QED BY <4>1 DEF TypeOK
      <3>4. QED BY <1>8, <3>1, <3>2, <3>3
    <2>3. QED BY <1>5, <2>1, <2>2
  <1>9. ASSUME NEW u \in Node, SetMaintenance(u) PROVE n \in blamed' \/ Deletes(n)'
    <2>1. at'[u] = "deleting" /\ node' = node /\ at[u] = "maintaining"
      BY <1>9 DEF SetMaintenance, Goto, TypeOK
    <2>2. CASE node[u] = n BY <2>1, <2>2
    <2>3. CASE node[u] # n
      <3>1. cib[n] = "maintenance" BY <1>1, <1>9, <2>3 DEF SetMaintenance, TypeOK
      <3>2. \A v \in Node \ {u} : at'[v] = at[v] BY <1>9 DEF SetMaintenance, Goto, TypeOK
      <3>3. QED BY <1>3, <2>1, <2>3, <3>1, <3>2
    <2>4. QED BY <2>2, <2>3
  <1>10. ASSUME NEW u \in Node, Raises(u), cib'[n] = cib[n] PROVE n \in blamed' \/ Deletes(n)'
    <2>1. node[u] \in blamed' /\ node' = node /\ \A v \in Node \ {u} : at'[v] = at[v]
      BY <1>10 DEF Raises, Goto, TypeOK
    <2>2. QED BY <1>1, <1>3, <1>10, <2>1
  <1>11. ASSUME NEW u \in Node, MaintenanceFails(u) PROVE n \in blamed' \/ Deletes(n)'
    BY <1>10, <1>11 DEF MaintenanceFails
  \* The deletion leaves no maintenance of the node behind.
  <1>12. ASSUME NEW u \in Node, Returns(u), node[u] # n, cib'[n] = cib[n]
         PROVE  n \in blamed' \/ Deletes(n)'
    <2>1. \A v \in Node \ {u} : at'[v] = at[v] /\ node'[v] = node[v]
      <3>1. CASE todo'[u] = {} BY <1>12, <3>1 DEF Returns, Goto, TypeOK
      <3>2. CASE todo'[u] # {} BY <1>12, <3>2 DEF Returns, Goto, TypeOK
      <3>3. QED BY <3>1, <3>2
    <2>2. QED BY <1>1, <1>3, <1>12, <2>1
  <1>13. ASSUME NEW u \in Node, TriesAgain(u), cib'[n] = cib[n] PROVE n \in blamed' \/ Deletes(n)'
    BY <1>1, <1>3, <1>13 DEF TriesAgain
  <1>14. ASSUME NEW u \in Node, Delete(u) PROVE n \in blamed' \/ Deletes(n)'
    <2>1. node[u] # n /\ cib'[n] = cib[n] BY <1>1, <1>14 DEF Delete, TypeOK
    <2>2. QED BY <1>12, <1>13, <1>14, <2>1 DEF Delete
  <1>15. ASSUME NEW u \in Node, NotFound(u) PROVE n \in blamed' \/ Deletes(n)'
    <2>1. node[u] # n /\ cib'[n] = cib[n] BY <1>1, <1>15 DEF NotFound, TypeOK
    <2>2. QED BY <1>12, <1>15, <2>1 DEF NotFound
  <1>16. ASSUME NEW u \in Node, DeleteFails(u) PROVE n \in blamed' \/ Deletes(n)'
    <2>1. cib'[n] = cib[n] BY <1>1, <1>16 DEF DeleteFails, TypeOK
    <2>2. TriesAgain(u) \/ Raises(u)
      <3>1. ASSUME RetryableError(u) PROVE TriesAgain(u) \/ Raises(u)
        BY <3>1 DEF RetryableError
      <3>2. QED BY <1>16, <3>1 DEF DeleteFails
    <2>3. QED BY <1>10, <1>13, <2>1, <2>2
  <1>17. ASSUME NEW u \in Node, Finish(u) PROVE n \in blamed' \/ Deletes(n)'
    <2>1. \A v \in Node \ {u} : at'[v] = at[v] BY <1>17 DEF Finish, Goto, TypeOK
    <2>2. QED BY <1>1, <1>3, <1>17, <2>1 DEF Finish
  <1>18. ASSUME NEW u \in Node, Kill(u) PROVE n \in blamed' \/ Deletes(n)'
    <2>1. node[u] \in blamed' /\ \A v \in Node \ {u} : at'[v] = at[v]
      BY <1>18 DEF Kill, Goto, TypeOK
    <2>2. QED BY <1>1, <1>3, <1>18, <2>1 DEF Kill
  <1>19. ASSUME UNCHANGED vars PROVE n \in blamed' \/ Deletes(n)'
    BY <1>4, <1>19 DEF vars
  <1>20. QED
    BY <1>6, <1>7, <1>8, <1>9, <1>11, <1>14, <1>15, <1>16, <1>17, <1>18, <1>19
       DEF Next, Works

\* Whatever fails, is retried or is done by two callers at once, no node is
\* left in maintenance without a caller that was told of a failure.
THEOREM NoSilentMaintenance == Spec => []MaintenanceIsAnnounced
  <1>1. Init => MaintenanceIsAnnounced BY DEF Init, MaintenanceIsAnnounced
  <1>2. QED BY <1>1, TypeCorrect, AnnouncedStep, PTL DEF Spec

-----------------------------------------------------------------------------
(* The refinement of Removal, from an invariant about the callers' books.  *)

\* A caller that is idle waits for no node; one that is at a node has yet to
\* see it gone and has no status; one that finishes has seen them all, or
\* has noted its failure.
BooksOf(u) ==
    /\ at[u] = "idle" => todo[u] = {} /\ status[u] \in {"success", "failed"}
    /\ at[u] \in {"maintaining", "deleting"} => node[u] \in todo[u] /\ status[u] = "none"
    /\ at[u] = "finishing" => todo[u] = {} /\ status[u] \in {"none", "failed"}
Books == \A u \in Node : BooksOf(u)

\* The books of a caller stay in order when it is not the one that moves.
LEMMA OthersBooks ==
    ASSUME TypeOK, Books, NEW u \in Node,
           \A v \in Node \ {u} : /\ at'[v] = at[v] /\ todo'[v] = todo[v]
                                 /\ node'[v] = node[v] /\ status'[v] = status[v],
           BooksOf(u)'
    PROVE  Books'
  BY DEF Books, BooksOf

LEMMA BooksReturns ==
    ASSUME TypeOK, Books, NEW u \in Node, at[u] = "deleting", Returns(u) PROVE Books'
  <1>1. node[u] \in todo[u] /\ status[u] = "none" BY DEF Books, BooksOf
  <1>2. todo'[u] = todo[u] \ {node[u]} /\ \A v \in Node \ {u} : todo'[v] = todo[v]
    BY DEF Returns, TypeOK
  <1>3. CASE todo'[u] = {}
    <2>1. at'[u] = "finishing" /\ node' = node /\ status' = status
          /\ \A v \in Node \ {u} : at'[v] = at[v]
      BY <1>3 DEF Returns, Goto, TypeOK
    <2>2. BooksOf(u)' BY <1>1, <1>3, <2>1 DEF BooksOf
    <2>3. QED BY <1>2, <2>1, <2>2, OthersBooks
  <1>4. CASE todo'[u] # {}
    <2>1. at'[u] = "maintaining" /\ node'[u] \in todo'[u] /\ status' = status
          /\ \A v \in Node \ {u} : at'[v] = at[v] /\ node'[v] = node[v]
      BY <1>4 DEF Returns, Goto, TypeOK
    <2>2. BooksOf(u)' BY <1>1, <2>1 DEF BooksOf
    <2>3. QED BY <1>2, <2>1, <2>2, OthersBooks
  <1>5. QED BY <1>3, <1>4

LEMMA BooksRaises ==
    ASSUME TypeOK, Books, NEW u \in Node, Raises(u) PROVE Books'
  <1>1. /\ todo'[u] = {} /\ status'[u] = "failed" /\ at'[u] \in {"finishing", "idle"}
        /\ \A v \in Node \ {u} : /\ at'[v] = at[v] /\ todo'[v] = todo[v]
                                 /\ node'[v] = node[v] /\ status'[v] = status[v]
    BY DEF Raises, Goto, TypeOK
  <1>2. BooksOf(u)' BY <1>1 DEF BooksOf
  <1>3. QED BY <1>1, <1>2, OthersBooks

LEMMA BooksTriesAgain ==
    ASSUME Books, NEW u \in Node, TriesAgain(u) PROVE Books'
  BY DEF TriesAgain, Books, BooksOf

LEMMA BooksBegin ==
    ASSUME TypeOK, Books, NEW u \in Node, NEW kind, NEW nodes \in SUBSET Node,
           Begin(u, kind, nodes),
           \/ nodes = {} /\ Goto(u, "finishing") /\ UNCHANGED node
           \/ Goto(u, "maintaining") /\ \E n \in nodes : node' = [node EXCEPT ![u] = n]
    PROVE  Books'
  <1>1. /\ todo'[u] = nodes /\ status'[u] = "none"
        /\ \A v \in Node \ {u} : todo'[v] = todo[v] /\ status'[v] = status[v]
    BY DEF Begin, TypeOK
  <1>2. CASE nodes = {} /\ Goto(u, "finishing") /\ UNCHANGED node
    <2>1. at'[u] = "finishing" /\ \A v \in Node \ {u} : at'[v] = at[v] /\ node'[v] = node[v]
      BY <1>2 DEF Goto, TypeOK
    <2>2. BooksOf(u)' BY <1>1, <1>2, <2>1 DEF BooksOf
    <2>3. QED BY <1>1, <2>1, <2>2, OthersBooks
  <1>3. CASE Goto(u, "maintaining") /\ \E n \in nodes : node' = [node EXCEPT ![u] = n]
    <2>1. /\ at'[u] = "maintaining" /\ node'[u] \in nodes
          /\ \A v \in Node \ {u} : at'[v] = at[v] /\ node'[v] = node[v]
      BY <1>3 DEF Goto, TypeOK
    <2>2. BooksOf(u)' BY <1>1, <2>1 DEF BooksOf
    <2>3. QED BY <1>1, <2>1, <2>2, OthersBooks
  <1>4. QED BY <1>2, <1>3

LEMMA BooksStep ==
    ASSUME TypeOK, Books, [Next]_vars PROVE Books'
  <1> USE DEF juju, caller, bounds
  <1>1. ASSUME NEW u \in Node, RemoveUnit(u) \/ NewLeader(u) \/ Rejoin(u) PROVE Books'
    BY <1>1 DEF RemoveUnit, NewLeader, Rejoin, Books, BooksOf
  <1>2. ASSUME NEW u \in Node, StopHook(u) PROVE Books'
    BY <1>2, BooksBegin DEF StopHook
  <1>3. ASSUME NEW u \in Node, UpdateRing(u) PROVE Books'
    <2>1. Unexpected \in SUBSET Node BY DEF Unexpected, Present
    <2>2. QED BY <1>3, <2>1, BooksBegin DEF UpdateRing
  <1>4. ASSUME NEW u \in Node, NEW n \in Node, DeleteNodeFromRing(u, n) PROVE Books'
    BY <1>4, BooksBegin DEF DeleteNodeFromRing
  <1>5. ASSUME NEW u \in Node, SetMaintenance(u) PROVE Books'
    <2>1. at'[u] = "deleting" /\ \A v \in Node \ {u} : at'[v] = at[v]
      BY <1>5 DEF SetMaintenance, Goto, TypeOK
    <2>2. BooksOf(u)' BY <1>5, <2>1 DEF SetMaintenance, Books, BooksOf
    <2>3. QED BY <1>5, <2>1, <2>2, OthersBooks DEF SetMaintenance
  <1>6. ASSUME NEW u \in Node, MaintenanceFails(u) PROVE Books'
    BY <1>6, BooksRaises DEF MaintenanceFails
  <1>7. ASSUME NEW u \in Node, Delete(u) PROVE Books'
    BY <1>7, BooksTriesAgain, BooksReturns DEF Delete
  <1>8. ASSUME NEW u \in Node, NotFound(u) PROVE Books'
    BY <1>8, BooksReturns DEF NotFound
  <1>9. ASSUME NEW u \in Node, DeleteFails(u) PROVE Books'
    <2>1. ASSUME RetryableError(u) PROVE TriesAgain(u) \/ Raises(u)
      BY <2>1 DEF RetryableError
    <2>2. QED BY <1>9, <2>1, BooksTriesAgain, BooksRaises DEF DeleteFails
  <1>10. ASSUME NEW u \in Node, Finish(u) PROVE Books'
    <2>1. /\ todo[u] = {} /\ status[u] \in {"none", "failed"}
      BY <1>10 DEF Finish, Books, BooksOf
    <2>2. status' = [status EXCEPT ![u] = IF status[u] = "none" THEN "success" ELSE status[u]]
      BY <1>10 DEF Finish
    <2>3. /\ at'[u] = "idle" /\ status'[u] \in {"success", "failed"}
          /\ todo' = todo /\ node' = node
          /\ \A v \in Node \ {u} : at'[v] = at[v] /\ status'[v] = status[v]
      BY <1>10, <2>1, <2>2 DEF Finish, Goto, TypeOK
    <2>4. BooksOf(u)' BY <2>1, <2>3 DEF BooksOf
    <2>5. QED BY <2>3, <2>4, OthersBooks
  <1>11. ASSUME NEW u \in Node, Kill(u) PROVE Books'
    <2>1. /\ at'[u] = "idle" /\ status'[u] = "failed" /\ todo'[u] = {} /\ node' = node
          /\ \A v \in Node \ {u} : /\ at'[v] = at[v] /\ status'[v] = status[v]
                                   /\ todo'[v] = todo[v]
      BY <1>11 DEF Kill, Goto, TypeOK
    <2>2. BooksOf(u)' BY <2>1 DEF BooksOf
    <2>3. QED BY <2>1, <2>2, OthersBooks
  <1>12. ASSUME UNCHANGED vars PROVE Books'
    BY <1>12 DEF vars, Books, BooksOf
  <1>13. QED
    BY <1>1, <1>2, <1>3, <1>4, <1>5, <1>6, <1>7, <1>8, <1>9, <1>10, <1>11, <1>12
       DEF Next, Works

\* Every step is a step of the abstract removal, or leaves it as it is.
LEMMA RemovalStep ==
    ASSUME TypeOK, Books, [Next]_vars PROVE [R!Next]_(R!vars)
  <1> USE DEF juju, caller, bounds
  <1>1. ASSUME UNCHANGED <<cib, todo, status>> PROVE UNCHANGED R!vars
    BY <1>1 DEF R!vars, Present
  <1>2. ASSUME NEW u \in Node, NEW kind, NEW nodes \in SUBSET Node, Begin(u, kind, nodes)
        PROVE  R!Next
    <2>1. todo[u] = {} BY <1>2 DEF Begin, Books, BooksOf
    <2>2. R!Ask(u, nodes) BY <1>2, <2>1 DEF Begin, R!Ask, Present
    <2>3. QED BY <2>2 DEF R!Next
  <1>3. ASSUME NEW u \in Node, status[u] = "none", Raises(u),
               cib' = cib \/ (node[u] \in todo[u] /\ cib' = [cib EXCEPT ![node[u]] = "gone"])
        PROVE  R!Next
    <2>1. CASE cib' = cib
      <3>1. R!Fails(u) BY <1>3, <2>1 DEF Raises, R!Fails, Present
      <3>2. QED BY <3>1 DEF R!Next
    <2>2. CASE node[u] \in todo[u] /\ cib' = [cib EXCEPT ![node[u]] = "gone"]
      <3>1. Present' = Present \ {node[u]} BY <2>2 DEF Present, TypeOK
      <3>2. R!After(node[u]) BY <3>1 DEF R!After
      <3>3. R!Fails(u) BY <1>3, <2>2, <3>2 DEF Raises, R!Fails
      <3>4. QED BY <3>3 DEF R!Next
    <2>3. QED BY <1>3, <2>1, <2>2
  <1>4. ASSUME NEW u \in Node, node[u] \in todo[u], Returns(u), node[u] \notin Present',
               Present' \in {Present, Present \ {node[u]}}
        PROVE  R!Next
    <2>1. node[u] \in Node BY DEF TypeOK
    <2>2. R!Seen(u, node[u]) BY <1>4 DEF Returns, R!Seen, R!After
    <2>3. QED BY <2>1, <2>2 DEF R!Next
  <1>5. ASSUME NEW u \in Node, node[u] \in todo[u], TriesAgain(u), todo' = todo, status' = status,
               cib' = cib \/ cib' = [cib EXCEPT ![node[u]] = "gone"]
        PROVE  [R!Next]_(R!vars)
    <2>1. CASE cib' = cib BY <1>1, <1>5, <2>1
    <2>2. CASE cib' = [cib EXCEPT ![node[u]] = "gone"]
      <3>1. node[u] \in Node BY DEF TypeOK
      <3>2. Present' = Present \ {node[u]} BY <2>2, <3>1 DEF Present, TypeOK
      <3>3. R!Goes(node[u]) BY <1>5, <3>2 DEF R!Goes
      <3>4. QED BY <3>1, <3>3 DEF R!Next
    <2>3. QED BY <1>5, <2>1, <2>2
  <1>6. ASSUME NEW u \in Node, RemoveUnit(u) \/ NewLeader(u) PROVE [R!Next]_(R!vars)
    BY <1>1, <1>6 DEF RemoveUnit, NewLeader
  <1>7. ASSUME NEW n \in Node, Rejoin(n) PROVE [R!Next]_(R!vars)
    <2>1. Present' = Present \cup {n} BY <1>7 DEF Rejoin, Present, TypeOK
    <2>2. R!Rejoins(n) BY <1>7, <2>1 DEF Rejoin, R!Rejoins
    <2>3. QED BY <2>2 DEF R!Next
  <1>8. ASSUME NEW u \in Node, StopHook(u) \/ UpdateRing(u) \/ \E m \in Node : DeleteNodeFromRing(u, m)
        PROVE  [R!Next]_(R!vars)
    <2>1. Unexpected \in SUBSET Node BY DEF Unexpected, Present
    <2>2. ASSUME StopHook(u) PROVE R!Next
      <3>1. Begin(u, "stop", {u}) BY <2>2 DEF StopHook
      <3>2. QED BY <1>2, <3>1
    <2>3. ASSUME UpdateRing(u) PROVE R!Next
      <3>1. Begin(u, "update-ring", Unexpected) BY <2>3 DEF UpdateRing
      <3>2. QED BY <1>2, <2>1, <3>1
    <2>4. ASSUME NEW m \in Node, DeleteNodeFromRing(u, m) PROVE R!Next
      <3>1. Begin(u, "delete-node-from-ring", {m}) BY <2>4 DEF DeleteNodeFromRing
      <3>2. QED BY <1>2, <3>1
    <2>5. QED BY <1>8, <2>2, <2>3, <2>4
  <1>9. ASSUME NEW u \in Node, SetMaintenance(u) PROVE [R!Next]_(R!vars)
    <2>1. Present' = Present BY <1>9 DEF SetMaintenance, Present, TypeOK
    <2>2. QED BY <1>9, <2>1 DEF SetMaintenance, R!vars
  <1>10. ASSUME NEW u \in Node, MaintenanceFails(u) PROVE [R!Next]_(R!vars)
    <2>1. status[u] = "none" BY <1>10 DEF MaintenanceFails, Books, BooksOf
    <2>2. QED BY <1>3, <1>10, <2>1 DEF MaintenanceFails
  <1>11. ASSUME NEW u \in Node, Delete(u) PROVE [R!Next]_(R!vars)
    <2>1. node[u] \in todo[u] /\ node[u] \in Node
      BY <1>11 DEF Delete, Books, BooksOf, TypeOK
    <2>2. cib' = [cib EXCEPT ![node[u]] = "gone"] BY <1>11 DEF Delete
    <2>3. Present' = Present \ {node[u]} BY <2>1, <2>2 DEF Present, TypeOK
    <2>4. CASE TriesAgain(u) BY <1>5, <2>1, <2>2, <2>4 DEF TriesAgain
    <2>5. CASE Returns(u) BY <1>4, <2>1, <2>3, <2>5
    <2>6. QED BY <1>11, <2>4, <2>5 DEF Delete
  <1>12. ASSUME NEW u \in Node, NotFound(u) PROVE [R!Next]_(R!vars)
    <2>1. node[u] \in todo[u] /\ node[u] \notin Present /\ Present' = Present
      BY <1>12 DEF NotFound, Books, BooksOf, Present
    <2>2. QED BY <1>4, <1>12, <2>1 DEF NotFound
  <1>13. ASSUME NEW u \in Node, DeleteFails(u) PROVE [R!Next]_(R!vars)
    <2>1. node[u] \in todo[u] /\ status[u] = "none"
      BY <1>13 DEF DeleteFails, Books, BooksOf
    <2>2. cib' = cib \/ cib' = [cib EXCEPT ![node[u]] = "gone"] BY <1>13 DEF DeleteFails
    <2>3. ASSUME RetryableError(u) PROVE TriesAgain(u) \/ Raises(u)
      BY <2>3 DEF RetryableError
    <2>4. TriesAgain(u) \/ Raises(u) BY <1>13, <2>3 DEF DeleteFails
    <2>5. CASE TriesAgain(u) BY <1>5, <2>1, <2>2, <2>5 DEF TriesAgain
    <2>6. CASE Raises(u) BY <1>3, <2>1, <2>2, <2>6
    <2>7. QED BY <2>4, <2>5, <2>6
  <1>14. ASSUME NEW u \in Node, Finish(u) PROVE [R!Next]_(R!vars)
    <2>1. todo[u] = {} /\ status[u] \in {"none", "failed"} /\ UNCHANGED <<cib, todo>>
      BY <1>14 DEF Finish, Books, BooksOf
    <2>2. CASE status[u] = "none"
      <3>1. status' = [status EXCEPT ![u] = "success"] BY <1>14, <2>2 DEF Finish
      <3>2. R!Succeeds(u) BY <1>14, <2>1, <2>2, <3>1 DEF Finish, R!Succeeds, Present
      <3>3. QED BY <3>2 DEF R!Next
    <2>3. CASE status[u] = "failed"
      <3>1. status' = [status EXCEPT ![u] = status[u]] BY <1>14, <2>3 DEF Finish
      <3>2. status' = status BY <3>1 DEF TypeOK
      <3>3. QED BY <1>1, <2>1, <3>2
    <2>4. QED BY <2>1, <2>2, <2>3
  <1>15. ASSUME NEW u \in Node, Kill(u) PROVE [R!Next]_(R!vars)
    <2>1. CASE status[u] = "none"
      <3>1. R!Fails(u) BY <1>15, <2>1 DEF Kill, R!Fails, Present
      <3>2. QED BY <3>1 DEF R!Next
    <2>2. CASE status[u] # "none"
      <3>1. at[u] = "finishing" BY <1>15, <2>2 DEF Kill, Books, BooksOf, TypeOK, Stage
      <3>2. todo[u] = {} /\ status[u] = "failed" BY <2>2, <3>1 DEF Books, BooksOf
      <3>3. UNCHANGED <<cib, todo, status>> BY <1>15, <3>2 DEF Kill, TypeOK
      <3>4. QED BY <1>1, <3>3
    <2>3. QED BY <2>1, <2>2
  <1>16. ASSUME UNCHANGED vars PROVE [R!Next]_(R!vars)
    BY <1>1, <1>16 DEF vars
  <1>17. QED
    BY <1>6, <1>7, <1>8, <1>9, <1>10, <1>11, <1>12, <1>13, <1>14, <1>15, <1>16
       DEF Next, Works

\* The stop hook, update-ring and delete-node-from-ring keep what Removal
\* promises to their callers, for any number of nodes and of errors.
THEOREM RemovalRefined == Spec => RemovalSpec
  <1>1. Init => Books BY DEF Init, Books, BooksOf
  <1>2. Init => R!Init BY DEF Init, R!Init, Present
  <1>3. QED BY <1>1, <1>2, TypeCorrect, BooksStep, RemovalStep, PTL
           DEF Spec, RemovalSpec, R!Spec
=============================================================================
