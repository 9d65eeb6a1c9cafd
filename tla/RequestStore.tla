---------------------------- MODULE RequestStore ---------------------------
(***************************************************************************)
(* Requests, servers and the deliveries that an expansion makes of them    *)
(* (request_repo.go, server_repo.go, their handlers, the tables and        *)
(* expand_request_to_deliveries).  Each handler is one statement; an       *)
(* expansion is one as well, but it runs row by row beside the others: it  *)
(* waits for a row that another one is about to insert, holds the rows     *)
(* that its own refer to, and shows nothing before it commits.             *)
(*                                                                         *)
(* Of a request and a server only the row is kept, of a delivery whether   *)
(* it is pending, done or failed.                                          *)
(***************************************************************************)
EXTENDS Naturals, Sequences, FiniteSets

CONSTANTS
  Requests, Servers,   \* ids: a row that was deleted does not come back
  Expanders,           \* calls of Expand at work at the same time
  CopyLists,           \* the lists of cc servers that callers ask for
  MaxPatches           \* bound of the deliveries that operators patch

ASSUME StoreAssumption ==
  /\ MaxPatches \in Nat
  /\ IsFiniteSet(Servers)
  /\ CopyLists \subseteq Seq(Servers)

Live == {"pending", "done", "failed"}     \* of a delivery
Missing == "missing"                      \* no row, or none any more
Fresh == "fresh"
Idle == [pc |-> "idle"]

VARIABLES
  request, server,    \* "live", Fresh or Missing
  delivery,   \* by request and server: UNIQUE (request_id, server_id)
  expansion,  \* what each expander is at
  promised,   \* history: deliveries of expansions that were answered with ok,
              \* and that nobody has deleted
  patches

storeVars == <<request, server, delivery, expansion, promised, patches>>

StoreInit ==
  /\ request = [r \in Requests |-> Fresh]
  /\ server = [s \in Servers |-> Fresh]
  /\ delivery = [x \in Requests \X Servers |-> Missing]
  /\ expansion = [e \in Expanders |-> Idle]
  /\ promised = {}
  /\ patches = 0

RequestRow(r) == request[r] = "live"
ServerRow(s) == server[s] = "live"
DeliveryRow(r, s) == delivery[<<r, s>>] # Missing

\* Rows that a running expansion has inserted; those they refer to are locked.
Running(e) == expansion[e] # Idle
Inserted == UNION {expansion[e].rows : e \in {x \in Expanders : Running(x)}}
RequestHeld(r) == \E x \in Inserted : x[1] = r
ServerHeld(s) == \E x \in Inserted : x[2] = s
-----------------------------------------------------------------------------
(* Requests and servers.                                                   *)

InsertRequest(r) ==
  /\ request[r] = Fresh
  /\ request' = [request EXCEPT ![r] = "live"]
  /\ UNCHANGED <<server, delivery, expansion, promised, patches>>

\* ON DELETE CASCADE.
DeleteRequest(r) ==
  /\ RequestRow(r) /\ ~RequestHeld(r)
  /\ request' = [request EXCEPT ![r] = Missing]
  /\ delivery' = [x \in Requests \X Servers |->
                    IF x[1] = r THEN Missing ELSE delivery[x]]
  /\ promised' = {x \in promised : x[1] # r}
  /\ UNCHANGED <<server, expansion, patches>>

InsertServer(s) ==
  /\ server[s] = Fresh
  /\ server' = [server EXCEPT ![s] = "live"]
  /\ UNCHANGED <<request, delivery, expansion, promised, patches>>

\* Mutant: a reference from a delivery that is still being inserted is missed.
DeleteServerUnheld(s) ==
  /\ ServerRow(s)
  /\ \A r \in Requests : ~DeliveryRow(r, s)
  /\ server' = [server EXCEPT ![s] = Missing]
  /\ UNCHANGED <<request, delivery, expansion, promised, patches>>

\* Refused as long as a delivery refers to it.
DeleteServer(s) ==
  /\ ServerRow(s) /\ ~ServerHeld(s)
  /\ \A r \in Requests : ~DeliveryRow(r, s)
  /\ server' = [server EXCEPT ![s] = Missing]
  /\ UNCHANGED <<request, delivery, expansion, promised, patches>>
-----------------------------------------------------------------------------
(* Expand.                                                                 *)

\* The servers are taken as they come, ids that name none among them.
Expand(e, r, dest, cc) ==
  /\ ~Running(e)
  /\ expansion' = [expansion EXCEPT ![e] =
                     [pc |-> "running", request |-> r, servers |-> <<dest>> \o cc,
                      rows |-> {}]]
  /\ UNCHANGED <<request, server, delivery, promised, patches>>

Next1(e) == LET x == expansion[e] IN
  <<x.request, x.servers[Cardinality(x.rows) + 1]>>
InsertsLeft(e) ==
  Running(e) /\ Cardinality(expansion[e].rows) < Len(expansion[e].servers)

\* The unique index makes it wait for the outcome of the other expansion.
WaitsFor(e, f) ==
  e # f /\ InsertsLeft(e) /\ Running(f) /\ Next1(e) \in expansion[f].rows

Waits(e) == \E f \in Expanders : WaitsFor(e, f)

Violates(e) ==
  LET x == Next1(e) IN
  \/ DeliveryRow(x[1], x[2]) \/ x \in expansion[e].rows     \* UNIQUE
  \/ ~RequestRow(x[1]) \/ ~ServerRow(x[2])                  \* REFERENCES

RolledBack(e) ==
  /\ expansion' = [expansion EXCEPT ![e] = Idle]
  /\ UNCHANGED <<request, server, delivery, promised, patches>>

\* Mutant: a call that is refused is made again.
InsertOrRetry(e) ==
  /\ InsertsLeft(e) /\ ~Waits(e)
  /\ expansion' = [expansion EXCEPT ![e].rows =
                     IF Violates(e) THEN {} ELSE @ \cup {Next1(e)}]
  /\ UNCHANGED <<request, server, delivery, promised, patches>>

InsertDelivery(e) ==
  /\ InsertsLeft(e) /\ ~Waits(e)
  /\ IF Violates(e) THEN RolledBack(e)
     ELSE /\ expansion' = [expansion EXCEPT ![e].rows = @ \cup {Next1(e)}]
          /\ UNCHANGED <<request, server, delivery, promised, patches>>

\* PostgreSQL ends a transaction that waits in a circle.
Deadlocked(e) == \E f \in Expanders : WaitsFor(e, f) /\ WaitsFor(f, e)
BreakDeadlock(e) == Deadlocked(e) /\ RolledBack(e)

Commit(e) ==
  /\ Running(e) /\ ~InsertsLeft(e)
  /\ delivery' = [x \in Requests \X Servers |->
                    IF x \in expansion[e].rows THEN "pending" ELSE delivery[x]]
  /\ promised' = promised \cup expansion[e].rows
  /\ expansion' = [expansion EXCEPT ![e] = Idle]
  /\ UNCHANGED <<request, server, patches>>

ExpandFails(e) == Running(e) /\ RolledBack(e)
-----------------------------------------------------------------------------
(* What becomes of deliveries: the workers settle them, operators patch    *)
(* and delete them.                                                        *)

Settle(r, s, outcome) ==
  /\ delivery[<<r, s>>] = "pending"
  /\ delivery' = [delivery EXCEPT ![<<r, s>>] = outcome]
  /\ UNCHANGED <<request, server, expansion, promised, patches>>

\* An operator writes any status, whatever the row's is.
PatchDelivery(r, s, to) ==
  /\ DeliveryRow(r, s) /\ patches < MaxPatches
  /\ delivery' = [delivery EXCEPT ![<<r, s>>] = to]
  /\ patches' = patches + 1
  /\ UNCHANGED <<request, server, expansion, promised>>

DeleteDelivery(r, s) ==
  /\ DeliveryRow(r, s)
  /\ delivery' = [delivery EXCEPT ![<<r, s>>] = Missing]
  /\ promised' = promised \ {<<r, s>>}
  /\ UNCHANGED <<request, server, expansion, patches>>

\* The view request_rollup.  Without deliveries the outer join leaves one row
\* of NULLs, which COUNT(*) counts and no filter on the status does.
Count(r, statuses) == Cardinality({s \in Servers : delivery[<<r, s>>] \in statuses})

\* Mutant: a delivery that is done says that all are.
RollupAnyDone(r) ==
  IF Count(r, {"failed"}) > 0 THEN "failed"
  ELSE IF Count(r, {"done"}) > 0 THEN "done"
  ELSE IF Count(r, {"pending"}) > 0 THEN "processing" ELSE "unknown"

Rollup(r) ==
  IF Count(r, {"failed"}) > 0 THEN "failed"
  ELSE IF Count(r, {"pending"}) > 0 THEN "processing"
  ELSE IF Count(r, {"done"}) > 0 /\ Count(r, Live \ {"done"}) = 0 THEN "done"
  ELSE "unknown"

StoreNext ==
  \/ \E r \in Requests : InsertRequest(r) \/ DeleteRequest(r)
  \/ \E s \in Servers : InsertServer(s) \/ DeleteServer(s)
  \/ \E e \in Expanders, r \in Requests, s \in Servers, cc \in CopyLists :
       Expand(e, r, s, cc)
  \/ \E e \in Expanders :
       InsertDelivery(e) \/ BreakDeadlock(e) \/ Commit(e) \/ ExpandFails(e)
  \/ \E r \in Requests, s \in Servers :
       \/ \E outcome \in {"done", "failed"} : Settle(r, s, outcome)
       \/ \E to \in Live : PatchDelivery(r, s, to)
       \/ DeleteDelivery(r, s)

\* A statement that does not wait goes on; one that waits is woken when the
\* other transaction ends, and does not lose to new callers for ever.  The
\* database breaks deadlocks.
StoreFairness ==
  \A e \in Expanders :
    /\ SF_storeVars(InsertDelivery(e)) /\ WF_storeVars(Commit(e))
    /\ WF_storeVars(BreakDeadlock(e))

StoreSpec == StoreInit /\ [][StoreNext]_storeVars /\ StoreFairness
-----------------------------------------------------------------------------
(* Properties.                                                             *)

Expansion ==
  {Idle} \cup [pc : {"running"}, request : Requests, servers : Seq(Servers),
               rows : SUBSET (Requests \X Servers)]

\* Types; no two expansions have inserted the same row.
StoreTypeOK ==
  /\ request \in [Requests -> {"live", Fresh, Missing}]
  /\ server \in [Servers -> {"live", Fresh, Missing}]
  /\ delivery \in [Requests \X Servers -> Live \cup {Missing}]
  /\ expansion \in [Expanders -> Expansion]
  /\ promised \subseteq Requests \X Servers
  /\ patches \in 0..MaxPatches
  /\ \A e, f \in Expanders : e # f /\ Running(e) /\ Running(f) =>
       expansion[e].rows \cap expansion[f].rows = {}

\* Whatever is deleted while expansions run, no delivery is left whose request
\* or server the claims could not join.
Joinable ==
  \A r \in Requests, s \in Servers :
    DeliveryRow(r, s) => RequestRow(r) /\ ServerRow(s)

\* A caller who was told that a request is expanded (Expand) finds each of its
\* deliveries, and the roll-up says done only when all of them are: also when
\* expansions of one request overlap, fail, or are ended by the database.
PromisesKept ==
  \A x \in promised :
    /\ DeliveryRow(x[1], x[2])
    /\ Rollup(x[1]) = "done" => delivery[x] = "done"

\* Expansions of one request that name the same servers in different orders
\* wait for each other; every call ends nevertheless.
ExpandEnds == \A e \in Expanders : Running(e) ~> ~Running(e)
=============================================================================
