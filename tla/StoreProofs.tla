----------------------------- MODULE StoreProofs -----------------------------
(***************************************************************************)
(* What the store promises of requests and their deliveries, the start of a *)
(* process of the schema, and the schedule of attempts and delays, for any *)
(* number of requests, servers, expanders, processes, versions and rows,   *)
(* wherever processes are killed.  The three modules share no state: each  *)
(* has its own invariant.                                                  *)
(***************************************************************************)
EXTENDS MCStore, FiniteSetTheorems, TLAPS

(* RequestStore: deliveries and the rows they refer to.                    *)

\* What a running expansion has inserted refers to rows that are there.
Referring ==
  \A e \in Expanders : Running(e) =>
    /\ IsFiniteSet(expansion[e].rows)
    /\ \A x \in expansion[e].rows : RequestRow(x[1]) /\ ServerRow(x[2])

PromisedRows == \A x \in promised : delivery[x] # Missing

StoreInv == StoreTypeOK /\ Joinable /\ Referring /\ PromisedRows
-----------------------------------------------------------------------------
LEMMA InitStore == StoreInit => StoreInv
BY StoreAssumption
   DEF StoreInit, StoreInv, StoreTypeOK, Joinable, Referring, PromisedRows, Expansion,
       Idle, Running, DeliveryRow, Fresh, Missing

\* Statements that leave the expansions alone, and delete no row that one of
\* them holds.
LEMMA ExpansionsStand ==
  ASSUME StoreInv, UNCHANGED expansion,
         \A r \in Requests : RequestRow(r) /\ RequestHeld(r) => RequestRow(r)',
         \A s \in Servers : ServerRow(s) /\ ServerHeld(s) => ServerRow(s)'
  PROVE  /\ Referring'
         /\ expansion' \in [Expanders -> Expansion]
         /\ (\A e, f \in Expanders : e # f /\ Running(e) /\ Running(f) =>
               expansion[e].rows \cap expansion[f].rows = {})'
<1>1. ASSUME NEW e \in Expanders, Running(e), NEW x \in expansion[e].rows
      PROVE  RequestRow(x[1])' /\ ServerRow(x[2])'
  <2>1. x \in Inserted
    BY <1>1 DEF Inserted
  <2>2. x \in Requests \X Servers
    BY <1>1 DEF StoreInv, StoreTypeOK, Expansion, Running
  <2>3. RequestHeld(x[1]) /\ ServerHeld(x[2])
    BY <2>1 DEF RequestHeld, ServerHeld
  <2>4. RequestRow(x[1]) /\ ServerRow(x[2])
    BY <1>1 DEF StoreInv, Referring
  <2> QED
    BY <2>2, <2>3, <2>4
<1>2. Referring'
  BY <1>1 DEF Referring, Running, StoreInv, RequestRow, ServerRow
<1> QED
  BY <1>2 DEF StoreInv, StoreTypeOK, Running

LEMMA RequestSteps ==
  ASSUME StoreInv, NEW r \in Requests, InsertRequest(r) \/ DeleteRequest(r)
  PROVE  StoreInv'
<1>1. UNCHANGED <<expansion, server, patches>>
  BY DEF InsertRequest, DeleteRequest
<1>2. CASE InsertRequest(r)
  <2>1. \A q \in Requests : RequestRow(q) => RequestRow(q)'
    BY <1>2 DEF InsertRequest, RequestRow, StoreInv, StoreTypeOK
  <2>2. \A s \in Servers : ServerRow(s)' = ServerRow(s)
    BY <1>1 DEF ServerRow
  <2>3. Referring' /\ expansion' \in [Expanders -> Expansion]
         /\ (\A e, f \in Expanders : e # f /\ Running(e) /\ Running(f) =>
               expansion[e].rows \cap expansion[f].rows = {})'
    BY <1>1, <2>1, <2>2, ExpansionsStand
  <2>4. Joinable' /\ PromisedRows'
    BY <1>2, <2>1, <2>2 DEF InsertRequest, StoreInv, Joinable, PromisedRows,
       DeliveryRow
  <2> QED
    BY <1>2, <2>3, <2>4 DEF InsertRequest, StoreInv, StoreTypeOK
<1>3. CASE DeleteRequest(r)
  <2>1. \A q \in Requests : RequestRow(q) /\ q # r => RequestRow(q)'
    BY <1>3 DEF DeleteRequest, RequestRow, StoreInv, StoreTypeOK
  <2>2. \A s \in Servers : ServerRow(s)' = ServerRow(s)
    BY <1>1 DEF ServerRow
  <2>3. Referring' /\ expansion' \in [Expanders -> Expansion]
         /\ (\A e, f \in Expanders : e # f /\ Running(e) /\ Running(f) =>
               expansion[e].rows \cap expansion[f].rows = {})'
    BY <1>1, <1>3, <2>1, <2>2, ExpansionsStand DEF DeleteRequest
  <2>4. \A q \in Requests, s \in Servers :
          delivery'[<<q, s>>] = IF q = r THEN Missing ELSE delivery[<<q, s>>]
    BY <1>3 DEF DeleteRequest
  <2>5. Joinable'
    BY <2>1, <2>2, <2>4 DEF StoreInv, Joinable, DeliveryRow
  <2>6. PromisedRows'
    BY <1>3 DEF DeleteRequest, StoreInv, StoreTypeOK, PromisedRows
  <2>7. delivery' \in [Requests \X Servers -> Live \cup {Missing}]
    BY <1>3 DEF DeleteRequest, StoreInv, StoreTypeOK
  <2> QED
    BY <1>3, <2>3, <2>5, <2>6, <2>7 DEF DeleteRequest, StoreInv, StoreTypeOK
<1> QED
  BY <1>2, <1>3

LEMMA ServerSteps ==
  ASSUME StoreInv, NEW s \in Servers, InsertServer(s) \/ DeleteServer(s)
  PROVE  StoreInv'
<1>1. UNCHANGED <<expansion, request, delivery, promised, patches>>
  BY DEF InsertServer, DeleteServer
<1>2. /\ \A t \in Servers : ServerRow(t) /\ t # s => ServerRow(t)'
      /\ ServerRow(s) /\ ~ServerRow(s)' => DeleteServer(s)
      /\ server' \in [Servers -> {"live", Fresh, Missing}]
  BY DEF InsertServer, DeleteServer, ServerRow, StoreInv, StoreTypeOK
<1>3. \A r \in Requests : RequestRow(r)' = RequestRow(r)
  BY <1>1 DEF RequestRow
<1>4. Referring' /\ expansion' \in [Expanders -> Expansion]
       /\ (\A e, f \in Expanders : e # f /\ Running(e) /\ Running(f) =>
             expansion[e].rows \cap expansion[f].rows = {})'
  BY <1>1, <1>2, <1>3, ExpansionsStand DEF DeleteServer
<1>5. Joinable' /\ PromisedRows'
  BY <1>1, <1>2, <1>3 DEF DeleteServer, StoreInv, Joinable, PromisedRows,
     DeliveryRow
<1> QED
  BY <1>1, <1>2, <1>4, <1>5 DEF StoreInv, StoreTypeOK

\* Deliveries that are settled, patched and deleted.
LEMMA DeliverySteps ==
  ASSUME StoreInv, NEW r \in Requests, NEW s \in Servers,
         \/ \E outcome \in {"done", "failed"} : Settle(r, s, outcome)
         \/ \E to \in Live : PatchDelivery(r, s, to)
         \/ DeleteDelivery(r, s)
  PROVE  StoreInv'
<1>1. UNCHANGED <<expansion, request, server>>
  BY DEF Settle, PatchDelivery, DeleteDelivery
<1>2. (\A q \in Requests : RequestRow(q)' = RequestRow(q))
      /\ (\A t \in Servers : ServerRow(t)' = ServerRow(t))
  BY <1>1 DEF RequestRow, ServerRow
<1>3. Referring' /\ expansion' \in [Expanders -> Expansion]
       /\ (\A e, f \in Expanders : e # f /\ Running(e) /\ Running(f) =>
             expansion[e].rows \cap expansion[f].rows = {})'
  BY <1>1, <1>2, ExpansionsStand
<1>4. PICK v \in Live \cup {Missing} :
        /\ delivery' = [delivery EXCEPT ![<<r, s>>] = v]
        /\ promised' = IF v = Missing THEN promised \ {<<r, s>>} ELSE promised
  BY DEF Settle, PatchDelivery, DeleteDelivery, Live, Missing
<1>5. delivery[<<r, s>>] # Missing
  BY DEF Settle, PatchDelivery, DeleteDelivery, DeliveryRow, Missing
<1>6. <<r, s>> \in Requests \X Servers
  OBVIOUS
<1>7. \A x \in Requests \X Servers :
        delivery'[x] = IF x = <<r, s>> THEN v ELSE delivery[x]
  BY <1>4 DEF StoreInv, StoreTypeOK
<1>8. Joinable'
  <2>1. \A x \in Requests \X Servers : delivery'[x] # Missing => delivery[x] # Missing
    BY <1>5, <1>7
  <2> QED
    BY <1>2, <2>1 DEF StoreInv, Joinable, DeliveryRow
<1>9. PromisedRows'
  BY <1>4, <1>7 DEF StoreInv, StoreTypeOK, PromisedRows
<1>10. patches' \in 0..MaxPatches
  BY StoreAssumption DEF Settle, PatchDelivery, DeleteDelivery, StoreInv,
     StoreTypeOK
<1> QED
  BY <1>1, <1>3, <1>4, <1>8, <1>9, <1>10 DEF StoreInv, StoreTypeOK
\* What an expansion inserts next is a pair of ids.
LEMMA NextRow ==
  ASSUME StoreInv, NEW e \in Expanders, InsertsLeft(e)
  PROVE  Running(e) /\ Next1(e) \in Requests \X Servers
<1> DEFINE x == expansion[e]
           n == Cardinality(x.rows)
<1>1. Running(e) /\ n < Len(x.servers)
  BY DEF InsertsLeft
<1>2. IsFiniteSet(x.rows)
  BY <1>1 DEF StoreInv, Referring
<1>3. n \in Nat
  BY <1>2, FS_CardinalityType
<1>4. x.request \in Requests /\ x.servers \in Seq(Servers)
  BY <1>1 DEF StoreInv, StoreTypeOK, Expansion, Running
<1>5. x.servers[n + 1] \in Servers
  <2>1. Len(x.servers) \in Nat /\ n + 1 \in 1..Len(x.servers)
    BY <1>1, <1>3, <1>4
  <2> QED
    BY <1>4, <2>1
<1> QED
  BY <1>1, <1>4, <1>5 DEF Next1

\* One expansion moves: it starts, inserts a row or ends.
LEMMA ExpansionMoves ==
  ASSUME StoreInv, NEW e \in Expanders, NEW x \in Expansion,
         UNCHANGED <<request, server, delivery, promised, patches>>,
         expansion' = [expansion EXCEPT ![e] = x],
         x # Idle =>
           /\ IsFiniteSet(x.rows)
           /\ \A y \in x.rows : RequestRow(y[1]) /\ ServerRow(y[2])
           /\ \A f \in Expanders \ {e} : Running(f) => x.rows \cap expansion[f].rows = {}
  PROVE  StoreInv'
<1>1. /\ expansion' \in [Expanders -> Expansion] /\ expansion'[e] = x
      /\ \A f \in Expanders \ {e} : expansion'[f] = expansion[f]
  BY DEF StoreInv, StoreTypeOK
<1>2. \A f \in Expanders \ {e} : Running(f)' = Running(f)
  BY <1>1 DEF Running
<1>3. Running(e)' <=> x # Idle
  BY <1>1 DEF Running
<1>4. Referring'
  <2>1. SUFFICES ASSUME NEW f \in Expanders, Running(f)'
                 PROVE  /\ IsFiniteSet(expansion'[f].rows)
                        /\ \A y \in expansion'[f].rows : RequestRow(y[1])' /\ ServerRow(y[2])'
    BY DEF Referring
  <2>2. CASE f = e
    BY <1>1, <1>3, <2>1, <2>2 DEF RequestRow, ServerRow
  <2>3. CASE f # e
    BY <1>1, <1>2, <2>1, <2>3 DEF StoreInv, Referring, RequestRow, ServerRow
  <2> QED
    BY <2>2, <2>3
<1>5. ASSUME NEW f \in Expanders, NEW g \in Expanders, f # g, Running(f)', Running(g)'
      PROVE  expansion'[f].rows \cap expansion'[g].rows = {}
  <2>1. CASE f # e /\ g # e
    BY <1>1, <1>2, <1>5, <2>1 DEF StoreInv, StoreTypeOK
  <2>2. CASE f = e
    BY <1>1, <1>2, <1>3, <1>5, <2>2
  <2>3. CASE g = e
    BY <1>1, <1>2, <1>3, <1>5, <2>3
  <2> QED
    BY <2>1, <2>2, <2>3
<1>6. Joinable' /\ PromisedRows'
  BY DEF StoreInv, Joinable, PromisedRows, DeliveryRow, RequestRow, ServerRow
<1> QED
  BY <1>1, <1>4, <1>5, <1>6 DEF StoreInv, StoreTypeOK

LEMMA RollbackKeeps ==
  ASSUME StoreInv, NEW e \in Expanders, RolledBack(e)
  PROVE  StoreInv'
BY ExpansionMoves DEF RolledBack, Expansion

LEMMA ExpandKeeps ==
  ASSUME StoreInv, NEW e \in Expanders, NEW r \in Requests, NEW s \in Servers,
         NEW cc \in CopyLists, Expand(e, r, s, cc)
  PROVE  StoreInv'
<1> DEFINE x == [pc |-> "running", request |-> r, servers |-> <<s>> \o cc, rows |-> {}]
<1>1. cc \in Seq(Servers) /\ <<s>> \in Seq(Servers)
  BY StoreAssumption
<1>2. <<s>> \o cc \in Seq(Servers)
  BY <1>1
<1>3. x \in Expansion
  BY <1>2 DEF Expansion
<1>4. IsFiniteSet({})
  BY FS_EmptySet
<1>5. x.rows = {}
  OBVIOUS
<1> HIDE DEF x
<1> QED
  BY <1>3, <1>4, <1>5, ExpansionMoves DEF Expand, x

LEMMA InsertDeliveryKeeps ==
  ASSUME StoreInv, NEW e \in Expanders, InsertDelivery(e)
  PROVE  StoreInv'
<1> DEFINE inserted == expansion[e].rows \cup {Next1(e)}
           x == [expansion[e] EXCEPT !.rows = inserted]
<1>1. InsertsLeft(e) /\ ~Waits(e)
  BY DEF InsertDelivery
<1>2. Running(e) /\ Next1(e) \in Requests \X Servers
  BY <1>1, NextRow
<1>3. CASE Violates(e)
  BY <1>3, RollbackKeeps DEF InsertDelivery
<1>4. CASE ~Violates(e)
  <2>1. expansion' = [expansion EXCEPT ![e] = x]
        /\ UNCHANGED <<request, server, delivery, promised, patches>>
    BY <1>4 DEF InsertDelivery
  <2>2. expansion[e] \in [pc : {"running"}, request : Requests, servers : Seq(Servers),
                          rows : SUBSET (Requests \X Servers)]
    BY <1>2 DEF StoreInv, StoreTypeOK, Expansion, Running
  <2>3. x \in Expansion /\ x.rows = inserted
    BY <1>2, <2>2 DEF Expansion
  <2>4. IsFiniteSet(inserted)
    BY <1>2, FS_AddElement DEF StoreInv, Referring
  <2>5. \A y \in inserted : RequestRow(y[1]) /\ ServerRow(y[2])
    BY <1>2, <1>4 DEF StoreInv, Referring, Violates
  <2>6. \A f \in Expanders \ {e} : Running(f) => inserted \cap expansion[f].rows = {}
    BY <1>1, <1>2 DEF Waits, WaitsFor, StoreInv, StoreTypeOK
  <2> HIDE DEF x, inserted
  <2> QED
    BY <2>1, <2>3, <2>4, <2>5, <2>6, ExpansionMoves
<1> QED
  BY <1>3, <1>4

LEMMA CommitKeeps ==
  ASSUME StoreInv, NEW e \in Expanders, Commit(e)
  PROVE  StoreInv'
<1> DEFINE inserted == expansion[e].rows
<1>1. /\ Running(e)
      /\ delivery' = [x \in Requests \X Servers |->
                        IF x \in inserted THEN "pending" ELSE delivery[x]]
      /\ promised' = promised \cup inserted
      /\ expansion' = [expansion EXCEPT ![e] = Idle]
      /\ UNCHANGED <<request, server, patches>>
  BY DEF Commit
<1>2. inserted \subseteq Requests \X Servers
      /\ \A x \in inserted : RequestRow(x[1]) /\ ServerRow(x[2])
  BY <1>1 DEF StoreInv, StoreTypeOK, Expansion, Running, Referring
<1>3. delivery' \in [Requests \X Servers -> Live \cup {Missing}]
      /\ promised' \subseteq Requests \X Servers
  BY <1>1, <1>2 DEF StoreInv, StoreTypeOK, Live
<1>4. /\ expansion' \in [Expanders -> Expansion]
      /\ \A f \in Expanders : Running(f)' => Running(f) /\ expansion'[f] = expansion[f]
  BY <1>1 DEF StoreInv, StoreTypeOK, Running, Expansion
<1>5. Referring'
  BY <1>1, <1>4 DEF StoreInv, Referring, RequestRow, ServerRow
<1>6. \A x \in Requests \X Servers :
        delivery'[x] # Missing => x \in inserted \/ delivery[x] # Missing
  BY <1>1
<1>7. Joinable'
  <2>1. SUFFICES ASSUME NEW r \in Requests, NEW s \in Servers, DeliveryRow(r, s)'
                 PROVE  RequestRow(r)' /\ ServerRow(s)'
    BY DEF Joinable
  <2>2. <<r, s>> \in inserted \/ delivery[<<r, s>>] # Missing
    BY <1>6, <2>1 DEF DeliveryRow
  <2>3. RequestRow(r) /\ ServerRow(s)
    BY <1>2, <2>2 DEF StoreInv, Joinable, DeliveryRow
  <2> QED
    BY <1>1, <2>3 DEF RequestRow, ServerRow
<1>8. PromisedRows'
  BY <1>1, <1>2 DEF StoreInv, StoreTypeOK, PromisedRows, Missing
<1>9. (\A g, f \in Expanders : g # f /\ Running(g) /\ Running(f) =>
         expansion[g].rows \cap expansion[f].rows = {})'
  BY <1>4 DEF StoreInv, StoreTypeOK
<1> QED
  BY <1>1, <1>3, <1>4, <1>5, <1>7, <1>8, <1>9 DEF StoreInv, StoreTypeOK

LEMMA StoreInvariant == StoreInit /\ [][StoreNext]_storeVars => []StoreInv
<1>1. ASSUME StoreInv, StoreNext
      PROVE  StoreInv'
  BY <1>1, RequestSteps, ServerSteps, DeliverySteps, RollbackKeeps, ExpandKeeps,
     InsertDeliveryKeeps, CommitKeeps DEF StoreNext, BreakDeadlock, ExpandFails
<1>2. ASSUME StoreInv, UNCHANGED storeVars
      PROVE  StoreInv'
  BY <1>2 DEF storeVars, StoreInv, StoreTypeOK, Joinable, Referring, PromisedRows,
              DeliveryRow, RequestRow, ServerRow, Running
<1> QED
  BY <1>1, <1>2, InitStore, PTL

\* The types, and the rows of two expansions apart.
LEMMA StoreTypes == StoreSpec => []StoreTypeOK
<1>1. StoreInv => StoreTypeOK
  BY DEF StoreInv
<1> QED
  BY <1>1, StoreInvariant, PTL DEF StoreSpec

\* Whatever is deleted while expansions run (ON DELETE CASCADE, and the locks
\* of the foreign keys), a delivery has its request and its server.
LEMMA DeliveriesJoin == StoreSpec => []Joinable
<1>1. StoreInv => Joinable
  BY DEF StoreInv
<1> QED
  BY <1>1, StoreInvariant, PTL DEF StoreSpec

\* What Expand has promised is there until it is deleted, and the roll-up does
\* not say done before each delivery is (request_rollup): for any number of
\* requests, servers and overlapping calls.
THEOREM PromisesHold == StoreSpec => []PromisesKept
<1>1. ASSUME StoreInv, NEW x \in promised
      PROVE  /\ DeliveryRow(x[1], x[2])
             /\ Rollup(x[1]) = "done" => delivery[x] = "done"
  <2>1. x = <<x[1], x[2]>> /\ x[1] \in Requests /\ x[2] \in Servers
        /\ delivery[x] # Missing /\ delivery[x] \in Live \cup {Missing}
    BY <1>1 DEF StoreInv, StoreTypeOK, PromisedRows
  <2>2. \A outcome \in Live :
          delivery[x] = outcome => ~(Count(x[1], {outcome}) = 0) /\ Count(x[1], {outcome}) \in Nat
    <3>1. SUFFICES ASSUME NEW outcome \in Live, delivery[x] = outcome
                   PROVE  ~(Count(x[1], {outcome}) = 0) /\ Count(x[1], {outcome}) \in Nat
      OBVIOUS
    <3> DEFINE those == {s \in Servers : delivery[<<x[1], s>>] \in {outcome}}
    <3>2. x[2] \in those
      BY <2>1, <3>1
    <3>3. IsFiniteSet(those)
      BY StoreAssumption, FS_Subset
    <3>4. Cardinality(those) # 0 /\ Cardinality(those) \in Nat
      BY <3>2, <3>3, FS_EmptySet, FS_CardinalityType
    <3> QED
      BY <3>4 DEF Count
  <2>3. delivery[x] \in {"failed", "pending"} => Rollup(x[1]) # "done"
    BY <2>2 DEF Rollup, Live
  <2> QED
    BY <2>1, <2>3 DEF DeliveryRow, Live
<1>2. StoreInv => PromisesKept
  BY <1>1 DEF PromisesKept
<1> QED
  BY <1>2, StoreInvariant, PTL DEF StoreSpec
-----------------------------------------------------------------------------
(* Startup: migrations.                                                    *)

StartTyped ==
  /\ stage \in [Instances -> {"off"} \cup Starting \cup Serving]
  /\ schema \in [version : 0..LastVersion, dirty : BOOLEAN]
  /\ applied \in [Versions -> Nat]

\* One process migrates at a time.
LockHeld == \A p \in Instances : stage[p] \in Migrating => lock = p

\* What the row says of the version, and what has been committed.
Recorded ==
  \A v \in Versions :
    /\ v < schema.version \/ (v = schema.version /\ ~schema.dirty) => applied[v] = 1
    /\ v > schema.version => applied[v] = 0
    /\ applied[v] \in {0, 1}

\* What a process may count on, by where it is.  The versions only grow, so
\* one that is beyond the migrations counts on them for good.
Known ==
  \A p \in Instances :
    /\ stage[p] = "mark" => ~schema.dirty /\ schema.version < LastVersion
    /\ stage[p] = "run" => schema.dirty /\ schema.version \in Versions
                           /\ applied[schema.version] = 0
    /\ stage[p] = "clear" => schema.dirty /\ schema.version \in Versions
                             /\ applied[schema.version] = 1
    /\ stage[p] \in {"fixtures", "seed"} \cup Serving => Migrated /\ ~schema.dirty

StartInv == StartTyped /\ LockHeld /\ Recorded /\ Known
-----------------------------------------------------------------------------
LEMMA InitStartInv == StartInit => StartInv
BY StartupAssumption DEF StartInit, StartInv, StartTyped, LockHeld, Recorded, Known,
   Versions, Migrating, Serving

\* A process that moves on without the database: where it goes it may count on
\* no more than where it was.
LEMMA StageMoves ==
  ASSUME StartInv, NEW p \in Instances,
         NEW to \in {"off"} \cup Starting \cup Serving,
         stage' = [stage EXCEPT ![p] = to], UNCHANGED rows,
         \/ to \in {"off", "ping", "lock"}
         \/ to \in {"seed"} \cup Serving
              /\ stage[p] \in {"fixtures", "seed"} \cup Serving,
         lock' = lock \/ (lock = p /\ lock' = Nobody)
  PROVE  StartInv'
BY DEF StartInv, StartTyped, LockHeld, Recorded, Known, rows, Starting, Migrating,
       Serving, Migrated, Versions

\* The lock is taken by a process when nobody migrates.
LEMMA LockInv ==
  ASSUME StartInv, NEW p \in Instances, Lock(p)
  PROVE  StartInv'
BY StartupAssumption
   DEF StartInv, StartTyped, LockHeld, Recorded, Known, Lock, Moves, rows, Starting,
       Migrating, Serving, Migrated, Versions, Nobody

\* The version is read, and there is something left to do or nothing.
LEMMA ReadInv ==
  ASSUME StartInv, NEW p \in Instances, ReadVersion(p)
  PROVE  StartInv'
<1>1. stage[p] = "read" /\ ~schema.dirty /\ lock = p /\ UNCHANGED rows
  BY DEF ReadVersion, UpTo, Unlocks, Moves, StartInv, LockHeld, Migrating
<1>2. CASE Migrated
  BY <1>1, <1>2 DEF ReadVersion, UpTo, Unlocks, Moves, StartInv, StartTyped,
     LockHeld,
     Recorded, Known, rows, Starting, Migrating, Serving, Migrated, Versions
<1>3. CASE ~Migrated
  BY <1>1, <1>3, StartupAssumption
     DEF ReadVersion, UpTo, Moves, StartInv, StartTyped, LockHeld,
     Recorded, Known, rows, Starting, Migrating, Serving, Migrated, Versions
<1> QED
  BY <1>2, <1>3

\* The next version is announced: those who count on a clean row of the last
\* version are none, for the row is not of the last version.
LEMMA MarkInv ==
  ASSUME StartInv, NEW p \in Instances, MarkDirty(p)
  PROVE  StartInv'
<1>1. /\ stage[p] = "mark" /\ lock = p /\ ~schema.dirty
      /\ schema.version \in 0..LastVersion /\ schema.version < LastVersion
      /\ stage' = [stage EXCEPT ![p] = "run"] /\ UNCHANGED <<lock, applied>>
      /\ schema' = [version |-> schema.version + 1, dirty |-> TRUE]
  BY DEF MarkDirty, Moves, StartInv, StartTyped, LockHeld, Known, Migrating
<1>2. schema.version + 1 \in Versions /\ schema.version + 1 \in 0..LastVersion
  BY <1>1, StartupAssumption DEF Versions
<1>3. \A q \in Instances : stage[q] \notin {"fixtures", "seed"} \cup Serving
  BY <1>1 DEF StartInv, Known, Migrated
<1>4. \A q \in Instances : stage[q] \in Migrating => q = p
  BY <1>1 DEF StartInv, LockHeld
<1>5. StartTyped' /\ LockHeld'
  BY <1>1, <1>2, <1>4 DEF StartInv, StartTyped, LockHeld, Starting, Migrating
<1>6. Recorded'
  BY <1>1, StartupAssumption DEF StartInv, Recorded, Versions
<1>7. applied[schema.version + 1] = 0
  BY <1>1, <1>2 DEF StartInv, Recorded
<1>8. Known'
  BY <1>1, <1>2, <1>3, <1>4, <1>7 DEF StartInv, StartTyped, Known, Migrating,
     Serving
<1> QED
  BY <1>5, <1>6, <1>8 DEF StartInv

\* The SQL of the version that is announced is committed, and of no other.
LEMMA RunInv ==
  ASSUME StartInv, NEW p \in Instances, RunMigration(p)
  PROVE  StartInv'
<1> DEFINE v == schema.version
<1>1. /\ stage[p] = "run" /\ lock = p /\ schema.dirty /\ v \in Versions
      /\ applied[v] = 0
      /\ stage' = [stage EXCEPT ![p] = "clear"] /\ UNCHANGED <<lock, schema>>
      /\ applied' = [applied EXCEPT ![v] = @ + 1]
  BY DEF RunMigration, Moves, StartInv, StartTyped, LockHeld, Known, Migrating
<1>2. \A w \in Versions : applied'[w] = IF w = v THEN 1 ELSE applied[w]
  BY <1>1 DEF StartInv, StartTyped
<1>3. \A q \in Instances : stage[q] \in Migrating => q = p
  BY <1>1 DEF StartInv, LockHeld
<1>4. applied' \in [Versions -> Nat]
  BY <1>1 DEF StartInv, StartTyped
<1>5. StartTyped' /\ LockHeld'
  BY <1>1, <1>3, <1>4 DEF StartInv, StartTyped, LockHeld, Starting, Migrating
<1>6. Recorded'
  BY <1>1, <1>2 DEF StartInv, Recorded, Versions
<1>7. Known'
  BY <1>1, <1>2, <1>3 DEF StartInv, StartTyped, Known, Migrating, Migrated, Serving
<1> QED
  BY <1>5, <1>6, <1>7 DEF StartInv

\* The row is clean again: the version that it names is committed.
LEMMA ClearInv ==
  ASSUME StartInv, NEW p \in Instances, ClearDirty(p)
  PROVE  StartInv'
<1>1. /\ stage[p] = "clear" /\ lock = p /\ schema.dirty /\ UNCHANGED applied
      /\ schema.version \in Versions /\ applied[schema.version] = 1
      /\ schema' = [schema EXCEPT !.dirty = FALSE]
      /\ lock' = lock \/ lock' = Nobody
      /\ stage' = [stage EXCEPT ![p] = IF Migrated THEN "fixtures" ELSE "mark"]
      /\ ~Migrated => lock' = lock
  BY DEF ClearDirty, Unlocks, Moves, StartInv, StartTyped, LockHeld, Known,
     Migrating
<1>2. /\ schema'.version = schema.version /\ ~schema'.dirty
      /\ schema' \in [version : 0..LastVersion, dirty : BOOLEAN]
      /\ schema.version \in 0..LastVersion
  BY <1>1 DEF StartInv, StartTyped
<1>3. \A q \in Instances : stage[q] \in Migrating => q = p
  BY <1>1 DEF StartInv, LockHeld
<1>4. StartTyped' /\ LockHeld'
  BY <1>1, <1>2, <1>3 DEF StartInv, StartTyped, LockHeld, Starting, Migrating
<1>5. Recorded'
  BY <1>1, <1>2 DEF StartInv, Recorded, Versions
<1>6. ~Migrated => schema.version < LastVersion
  BY <1>2, StartupAssumption DEF Migrated
<1>7. Known'
  BY <1>1, <1>2, <1>3, <1>6 DEF StartInv, StartTyped, Known, Migrating, Migrated,
     Serving
<1> QED
  BY <1>4, <1>5, <1>7 DEF StartInv
-----------------------------------------------------------------------------
\* Every step of a process keeps the invariant.
LEMMA StepStartInv ==
  ASSUME StartInv, NEW p \in Instances, StartStep(p)
  PROVE  StartInv'
<1>1. CASE Interrupt(p) \/ Accept(p) \/ Respond(p)
  BY <1>1 DEF Interrupt, Accept, Respond, StartInv, StartTyped, LockHeld, Recorded,
     Known, rows, Migrated
<1>2. CASE StartUp(p)
  BY <1>2, StageMoves DEF StartUp, Moves, Starting
<1>3. CASE Ping(p)
  BY <1>3, StageMoves DEF Ping, Moves, Starting
<1>4. CASE SkipFixtures(p)
  BY <1>4, StageMoves DEF SkipFixtures, Moves, Starting
<1>5. CASE Seed(p)
  BY <1>5, StageMoves DEF Seed, Moves, Serving
<1>6. CASE Drain(p)
  BY <1>6, StageMoves DEF Drain, Moves, Serving
<1>7. CASE Drained(p)
  BY <1>7, StageMoves DEF Drained, Moves, Serving
<1>8. CASE Fatal(p) \/ Close(p)
  BY <1>8, StageMoves DEF Fatal, Close, Ends
<1>9. CASE Lock(p)
  BY <1>9, LockInv
<1>10. CASE ReadVersion(p)
  BY <1>10, ReadInv
<1>11. CASE MarkDirty(p)
  BY <1>11, MarkInv
<1>12. CASE RunMigration(p)
  BY <1>12, RunInv
<1>13. CASE ClearDirty(p)
  BY <1>13, ClearInv
<1> QED
  BY <1>1, <1>2, <1>3, <1>4, <1>5, <1>6, <1>7, <1>8, <1>9, <1>10, <1>11, <1>12, <1>13
     DEF StartStep

\* The invariant says what each process relies on.
LEMMA InvSound == StartInv => SchemaSound
<1> SUFFICES ASSUME StartInv PROVE SchemaSound
  OBVIOUS
<1>1. /\ schema.version \in 0..LastVersion /\ LastVersion \in Nat
      /\ applied \in [Versions -> Nat]
  BY StartupAssumption DEF StartInv, StartTyped
<1>2. MigratedOnce
  <2> SUFFICES ASSUME NEW v \in Versions
               PROVE  applied[v] <= 1 /\ (v > 1 => applied[v] <= applied[v - 1])
    BY DEF MigratedOnce
  <2>1. applied[v] <= 1
    BY DEF StartInv, Recorded
  <2>2. ASSUME v > 1 PROVE applied[v] <= applied[v - 1]
    <3>1. v - 1 \in Versions /\ applied[v - 1] \in {0, 1}
      BY <1>1, <2>2 DEF StartInv, Recorded, Versions
    <3>2. CASE v > schema.version
      BY <3>1, <3>2 DEF StartInv, Recorded
    <3>3. CASE v <= schema.version
      BY <1>1, <2>1, <3>1, <3>3 DEF StartInv, Recorded, Versions
    <3> QED
      BY <1>1, <3>2, <3>3 DEF Versions
  <2> QED
    BY <2>1, <2>2
<1>3. ServesMigrated
  <2> SUFFICES ASSUME NEW p \in Instances, stage[p] \in Serving
               PROVE  Migrated /\ ~schema.dirty /\ \A v \in Versions : applied[v] = 1
    BY DEF ServesMigrated
  <2>1. Migrated /\ ~schema.dirty
    BY DEF StartInv, Known
  <2>2. ASSUME NEW v \in Versions PROVE applied[v] = 1
    BY <1>1, <2>1 DEF StartInv, Recorded, Migrated, Versions
  <2> QED
    BY <2>1, <2>2
<1> QED
  BY <1>2, <1>3 DEF SchemaSound

LEMMA StartInvariant == StartSpec => []StartInv
<1>1. StartInit => StartInv
  BY InitStartInv
<1>2. StartInv /\ [StartNext]_startVars => StartInv'
  <2>1. CASE UNCHANGED startVars
    BY <2>1 DEF startVars, StartInv, StartTyped, LockHeld, Recorded, Known, Migrated
  <2> QED
    BY <2>1, StepStartInv DEF StartNext
<1> QED
  BY <1>1, <1>2, PTL DEF StartSpec

\* However many processes start together, and wherever each of them is killed,
\* no migration is committed twice or before its predecessor, and a process
\* serves only on a database with all of them (RunWithPostgresDriver, main).
THEOREM SchemaIsSound == StartSpec => []SchemaSound
BY InvSound, StartInvariant, PTL
\* What is left of the types: the lock is held by the process that migrates.
Manned ==
  /\ stopped \in [Instances -> BOOLEAN]
  /\ busy \in [Instances -> 0..MaxRequests]
  /\ lock \in Instances \cup {Nobody}
  /\ \A p \in Instances : lock = p <=> stage[p] \in Migrating

LEMMA StepManned ==
  ASSUME StartTyped, Manned, NEW p \in Instances, StartStep(p)
  PROVE  Manned'
<1>1. Nobody \notin Instances /\ MaxRequests \in Nat
  BY StartupAssumption DEF Nobody
<1> USE DEF StartTyped, Manned
<1>2. stage \in [Instances -> {"off"} \cup Starting \cup Serving]
  OBVIOUS
<1>3. /\ stopped' \in [Instances -> BOOLEAN]
      /\ busy' \in [Instances -> 0..MaxRequests]
  <2>1. UNCHANGED stopped \/ \E b \in BOOLEAN : stopped' = [stopped EXCEPT ![p] = b]
    BY DEF StartStep, StartUp, Ping, Lock, ReadVersion, UpTo, MarkDirty,
       RunMigration,
       ClearDirty, SkipFixtures, Seed, Fatal, Ends, Interrupt, Accept, Respond, Drain,
       Drained, Close
  <2>2. UNCHANGED busy \/ \E b \in 0..MaxRequests : busy' = [busy EXCEPT ![p] = b]
    <3>1. CASE Accept(p) \/ Respond(p)
      BY <1>1, <3>1 DEF Accept, Respond
    <3>2. CASE ~(Accept(p) \/ Respond(p))
      BY <1>1, <3>2
      DEF StartStep, StartUp, Ping, Lock, ReadVersion, UpTo, MarkDirty, RunMigration,
         ClearDirty, SkipFixtures, Seed, Fatal, Ends, Interrupt, Drain, Drained, Close
    <3> QED
      BY <3>1, <3>2
  <2> QED
    BY <2>1, <2>2
<1>4. /\ lock' \in Instances \cup {Nobody}
      /\ \A q \in Instances : lock' = q <=> stage'[q] \in Migrating
  <2> USE <1>1, <1>2 DEF Moves, Migrating, Starting, Serving
  <2>1. CASE UNCHANGED <<stage, lock>>
    BY <2>1
  <2>2. CASE Fatal(p) \/ Close(p)
    BY <2>2 DEF Fatal, Close, Ends
  <2>3. CASE Lock(p)
    BY <2>3 DEF Lock
  <2>4. CASE ReadVersion(p)
    BY <2>4 DEF ReadVersion, UpTo, Unlocks
  <2>5. CASE ClearDirty(p)
    BY <2>5 DEF ClearDirty, Unlocks
  <2>6. CASE MarkDirty(p) \/ RunMigration(p)
    BY <2>6 DEF MarkDirty, RunMigration
  <2>7. CASE StartUp(p) \/ Ping(p) \/ SkipFixtures(p) \/ Seed(p) \/ Drain(p) \/ Drained(p)
    BY <2>7 DEF StartUp, Ping, SkipFixtures, Seed, Drain, Drained
  <2> QED
    BY <2>1, <2>2, <2>3, <2>4, <2>5, <2>6, <2>7
       DEF StartStep, Interrupt, Accept, Respond
<1> QED
  BY <1>3, <1>4

\* Types; the lock is held by the process that migrates, and by no other.
LEMMA StartTypes == StartSpec => []StartTypeOK
<1>1. StartInit => Manned
  BY StartupAssumption DEF StartInit, Manned, Nobody, Migrating
<1>2. StartInv /\ Manned /\ [StartNext]_startVars => Manned'
  <2>1. CASE UNCHANGED startVars
    BY <2>1 DEF startVars, Manned
  <2> QED
    BY <2>1, StepManned DEF StartNext, StartInv
<1>3. StartInv /\ Manned => StartTypeOK
  BY DEF StartInv, StartTyped, Manned, StartTypeOK
<1> QED
  BY <1>1, <1>2, <1>3, StartInvariant, PTL DEF StartSpec
-----------------------------------------------------------------------------
(* Schedule: attempts and delays.                                          *)

\* A row that may still be sent has attempts left.
ScheduleInv ==
  /\ ScheduleTypeOK
  /\ \A j \in Jobs : status[j] \in {"none", "ready", "processing"} =>
                       attempts[j] < AttemptsLimit

LEMMA ScheduleConstants ==
  /\ AttemptsLimit \in Nat /\ AttemptsLimit > 0
  /\ BackoffMax \in Nat /\ MaxLate \in Nat
  /\ NoHeader \in Int /\ NoHeader \notin Headers /\ Headers \subseteq Int
  /\ \A n : Backoff(n) \in Int /\ Backoff(n) <= BackoffMax
BY ScheduleAssumption DEF NoHeader, Backoff

\* A failure puts the row off by a backoff, or as its answer asks.
LEMMA FailedInv ==
  ASSUME ScheduleInv, NEW j \in Jobs, NEW h \in RetryAfter, Failed(j, h)
  PROVE  ScheduleInv'
<1> USE ScheduleConstants
<1> DEFINE last == attempts[j] + 1 >= AttemptsLimit
           put == IF last THEN 0 ELSE IF h = NoHeader THEN Backoff(attempts[j]) ELSE h
<1>1. /\ attempts[j] \in 0..AttemptsLimit /\ attempts[j] < AttemptsLimit
      /\ attempts[j] + 1 \in 0..AttemptsLimit
  BY DEF ScheduleInv, ScheduleTypeOK, Failed, FailedWith
<1>2. put \in Int /\ (put <= BackoffMax \/ \E x \in Headers : put <= x)
  BY DEF RetryAfter
<1>3. /\ status' = [status EXCEPT ![j] = IF last THEN "failed" ELSE "ready"]
      /\ attempts' = [attempts EXCEPT ![j] = @ + 1]
      /\ due' = [due EXCEPT ![j] = put]
  BY DEF Failed, FailedWith
<1> HIDE DEF put
<1>4. due' \in [Jobs -> Int]
      /\ \A i \in Jobs : due'[i] <= BackoffMax \/ \E x \in Headers : due'[i] <= x
  BY <1>2, <1>3 DEF ScheduleInv, ScheduleTypeOK
<1>5. /\ status' \in [Jobs -> {"none", "ready", "processing", "done", "failed"}]
      /\ attempts' \in [Jobs -> 0..AttemptsLimit]
  BY <1>1, <1>3 DEF ScheduleInv, ScheduleTypeOK
<1>6. \A i \in Jobs : status'[i] \in {"none", "ready", "processing"} =>
                        attempts'[i] < AttemptsLimit
  BY <1>1, <1>3 DEF ScheduleInv, ScheduleTypeOK
<1> QED
  BY <1>4, <1>5, <1>6 DEF ScheduleInv, ScheduleTypeOK

LEMMA NextScheduleInv == ScheduleInv /\ [ScheduleNext]_scheduleVars => ScheduleInv'
<1> SUFFICES ASSUME ScheduleInv, [ScheduleNext]_scheduleVars PROVE ScheduleInv'
  OBVIOUS
<1> USE ScheduleConstants
<1>1. ASSUME UNCHANGED <<attempts, due>>,
             status' \in [Jobs -> {"none", "ready", "processing", "done", "failed"}],
             \A j \in Jobs : status'[j] \in {"none", "ready", "processing"} =>
                               status[j] \in {"none", "ready", "processing"}
      PROVE  ScheduleInv'
  BY <1>1 DEF ScheduleInv, ScheduleTypeOK
<1>2. CASE Claim
  <2>1. UNCHANGED <<attempts, due>>
        /\ \E picked \in SUBSET {j \in Jobs : Ready(j)} :
             status' = [j \in Jobs |-> IF j \in picked THEN "processing" ELSE status[j]]
    BY <1>2 DEF Claim
  <2> QED
    BY <1>1, <2>1 DEF Ready, ScheduleInv, ScheduleTypeOK
<1>3. CASE Second
  BY <1>3 DEF Second, ScheduleInv, ScheduleTypeOK
<1>4. ASSUME NEW j \in Jobs, InsertRow(j) \/ Ok(j) PROVE ScheduleInv'
  BY <1>1, <1>4 DEF InsertRow, Ok, ScheduleInv, ScheduleTypeOK
<1>5. CASE UNCHANGED scheduleVars
  BY <1>1, <1>5 DEF scheduleVars, ScheduleInv, ScheduleTypeOK
<1> QED
  BY <1>2, <1>3, <1>4, <1>5, FailedInv DEF ScheduleNext

LEMMA ScheduleInvariant == ScheduleInit /\ [][ScheduleNext]_scheduleVars => []ScheduleInv
<1>1. ScheduleInit => ScheduleInv
  BY ScheduleConstants DEF ScheduleInit, ScheduleInv, ScheduleTypeOK
<1> QED
  BY <1>1, NextScheduleInv, PTL
-----------------------------------------------------------------------------
(* The three beside each other.                                            *)

\* A behaviour of the three beside each other is one of each.
LEMMA Composed == Spec => StoreSpec /\ StartSpec /\ ScheduleSpec
<1>1. Init => StoreInit /\ StartInit /\ ScheduleInit
  BY DEF Init
<1>2. [Next]_vars => [StoreNext]_storeVars /\ [StartNext]_startVars
                       /\ [ScheduleNext]_scheduleVars
  BY DEF Next, vars
<1> QED
  BY <1>1, <1>2, PTL DEF Spec, StoreSpec, StartSpec, ScheduleSpec

\* The types of the three; whatever is deleted while expansions run, a delivery
\* has its request and its server (ON DELETE CASCADE and the locks of the
\* foreign keys); only the process that migrates has the advisory lock; a
\* delivery has no more attempts than it may, and is put off by the longest
\* backoff or as a server asked (finalize_delivery).
THEOREM StoreTypesHold == Spec => []StoreTypesOK
<1>1. ScheduleInv => ScheduleTypeOK
  BY DEF ScheduleInv
<1>2. StoreTypeOK /\ Joinable /\ StartTypeOK /\ ScheduleTypeOK => StoreTypesOK
  BY DEF StoreTypesOK
<1>3. Spec => []ScheduleTypeOK
  BY <1>1, Composed, ScheduleInvariant, PTL DEF ScheduleSpec
<1> QED
  BY <1>2, <1>3, Composed, StoreTypes, DeliveriesJoin, StartTypes, PTL
=============================================================================
