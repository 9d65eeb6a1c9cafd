------------------------------ MODULE Startup ------------------------------
(***************************************************************************)
(* The life of the API processes (cmd/api/main.go): each one migrates the  *)
(* database, loads the fixtures if it is told to, seeds, serves, and stops *)
(* when it is signalled.  Several start on one database at once, and each  *)
(* may be killed at any step.                                              *)
(*                                                                         *)
(* The migrations are golang-migrate's, as migrate.go calls it: an         *)
(* advisory lock of the session, and a row with the version and a dirty    *)
(* flag, written before and after the SQL of each migration.               *)
(***************************************************************************)
EXTENDS Naturals

CONSTANTS
  Instances,
  LastVersion,
  MaxRequests     \* bound of the requests at work in a process

ASSUME StartupAssumption ==
  LastVersion \in Nat \ {0} /\ MaxRequests \in Nat /\ "nobody" \notin Instances

VARIABLES
  stage,          \* of each process
  stopped,        \* its context is cancelled
  busy,           \* its requests that hold a connection
  lock,           \* who holds the advisory lock
  schema,         \* version and dirty, in schema_migrations
  applied         \* history: how often the SQL of each version was committed

startVars == <<stage, stopped, busy, lock, schema, applied>>
rows == <<schema, applied>>

Nobody == "nobody"
Versions == 1..LastVersion
Migrating == {"read", "mark", "run", "clear"}
Starting == {"ping", "lock", "fixtures", "seed"} \cup Migrating
Serving == {"serve", "drain", "close"}

StartInit ==
  /\ stage = [p \in Instances |-> "off"]
  /\ stopped = [p \in Instances |-> FALSE]
  /\ busy = [p \in Instances |-> 0]
  /\ lock = Nobody
  /\ schema = [version |-> 0, dirty |-> FALSE]
  /\ applied = [v \in Versions |-> 0]

Moves(p, from, to) == stage[p] = from /\ stage' = [stage EXCEPT ![p] = to]

\* The process is no more, and neither is its session.
Ends(p) ==
  /\ stage' = [stage EXCEPT ![p] = "off"]
  /\ stopped' = [stopped EXCEPT ![p] = FALSE]
  /\ busy' = [busy EXCEPT ![p] = 0]
  /\ lock' = IF lock = p THEN Nobody ELSE lock

StartUp(p) == Moves(p, "off", "ping") /\ UNCHANGED <<stopped, busy, lock, rows>>

\* Only the ping and the seeder look at the context.
Ping(p) ==
  /\ Moves(p, "ping", "lock") /\ ~stopped[p]
  /\ UNCHANGED <<stopped, busy, lock, rows>>
-----------------------------------------------------------------------------
(* m.Up()                                                                  *)

Lock(p) ==
  /\ lock = Nobody /\ lock' = p
  /\ Moves(p, "lock", "read")
  /\ UNCHANGED <<stopped, busy, rows>>

\* The version that is read stays what it is while the lock is held.
Migrated == schema.version = LastVersion
Unlocks(p, from) == Moves(p, from, "fixtures") /\ lock' = Nobody

UpTo(p, ready) ==
  /\ IF ready THEN Unlocks(p, "read")
     ELSE Moves(p, "read", "mark") /\ UNCHANGED lock
  /\ UNCHANGED <<stopped, busy, rows>>

\* Mutant: a dirty version is taken for a clean one.
ReadVersionOnly(p) == UpTo(p, Migrated)

\* ErrDirty is an end of the process: see Fatal.
ReadVersion(p) == ~schema.dirty /\ UpTo(p, Migrated)

MarkDirty(p) ==
  /\ Moves(p, "mark", "run")
  /\ schema' = [version |-> schema.version + 1, dirty |-> TRUE]
  /\ UNCHANGED <<stopped, busy, lock, applied>>

RunMigration(p) ==
  /\ Moves(p, "run", "clear")
  /\ applied' = [applied EXCEPT ![schema.version] = @ + 1]
  /\ UNCHANGED <<stopped, busy, lock, schema>>

ClearDirty(p) ==
  /\ schema' = [schema EXCEPT !.dirty = FALSE]
  /\ IF Migrated THEN Unlocks(p, "clear")
     ELSE Moves(p, "clear", "mark") /\ UNCHANGED lock
  /\ UNCHANGED <<stopped, busy, applied>>
-----------------------------------------------------------------------------
(* The rest of main.                                                       *)

\* No SeedSampleData.  With it the process ends, see Fatal: the migrations
\* have closed the connections that the fixtures are given.
SkipFixtures(p) ==
  Moves(p, "fixtures", "seed") /\ UNCHANGED <<stopped, busy, lock, rows>>

Seed(p) ==
  /\ Moves(p, "seed", "serve") /\ ~stopped[p]
  /\ UNCHANGED <<stopped, busy, lock, rows>>

\* log.Fatal: an error of any step above, a lock that does not come in time, a
\* dirty version, fixtures, a port that is taken.  Or the process is killed.
Fatal(p) ==
  /\ stage[p] # "off"
  /\ Ends(p)
  /\ UNCHANGED rows

Interrupt(p) ==
  /\ stage[p] \in Starting \cup {"serve"} /\ ~stopped[p]
  /\ stopped' = [stopped EXCEPT ![p] = TRUE]
  /\ UNCHANGED <<stage, busy, lock, rows>>

\* Mutant: requests are taken while the process stops.
AcceptAlways(p) ==
  /\ stage[p] \in Serving /\ busy[p] < MaxRequests
  /\ busy' = [busy EXCEPT ![p] = @ + 1]
  /\ UNCHANGED <<stage, stopped, lock, rows>>

Accept(p) ==
  /\ stage[p] = "serve" /\ busy[p] < MaxRequests
  /\ busy' = [busy EXCEPT ![p] = @ + 1]
  /\ UNCHANGED <<stage, stopped, lock, rows>>

Respond(p) ==
  /\ busy[p] > 0
  /\ busy' = [busy EXCEPT ![p] = @ - 1]
  /\ UNCHANGED <<stage, stopped, lock, rows>>

\* srv.Shutdown closes the listener, and waits.
Drain(p) ==
  /\ stopped[p] /\ Moves(p, "serve", "drain")
  /\ UNCHANGED <<stopped, busy, lock, rows>>

\* Every request is answered, or 20 seconds are over and srv.Close leaves the
\* handlers to themselves.
Drained(p) == Moves(p, "drain", "close") /\ UNCHANGED <<stopped, busy, lock, rows>>

\* pool.Close waits for every connection that is in use.
Close(p) ==
  /\ stage[p] = "close" /\ busy[p] = 0
  /\ Ends(p)
  /\ UNCHANGED rows

StartStep(p) ==
  \/ StartUp(p) \/ Ping(p) \/ Lock(p) \/ ReadVersion(p) \/ MarkDirty(p)
  \/ RunMigration(p) \/ ClearDirty(p) \/ SkipFixtures(p) \/ Seed(p) \/ Fatal(p)
  \/ Interrupt(p) \/ Accept(p) \/ Respond(p) \/ Drain(p) \/ Drained(p) \/ Close(p)

StartNext == \E p \in Instances : StartStep(p)

\* The main goroutine of a process that serves goes on, and so does every
\* handler, for PostgreSQL answers it.
StartFairness ==
  \A p \in Instances :
    /\ WF_startVars(Drain(p)) /\ WF_startVars(Drained(p)) /\ WF_startVars(Close(p))
    /\ WF_startVars(Respond(p))

StartSpec == StartInit /\ [][StartNext]_startVars /\ StartFairness
-----------------------------------------------------------------------------
(* Properties.                                                             *)

\* Types; the lock is held by the process that migrates, and by no other.
StartTypeOK ==
  /\ stage \in [Instances -> {"off"} \cup Starting \cup Serving]
  /\ stopped \in [Instances -> BOOLEAN]
  /\ busy \in [Instances -> 0..MaxRequests]
  /\ lock \in Instances \cup {Nobody}
  /\ schema \in [version : 0..LastVersion, dirty : BOOLEAN]
  /\ applied \in [Versions -> Nat]
  /\ \A p \in Instances : lock = p <=> stage[p] \in Migrating

\* A migration, which drops the tables that it creates, is committed once at
\* most, and after those before it, however many processes start together and
\* wherever they are killed (RunWithPostgresDriver).
MigratedOnce ==
  \A v \in Versions : /\ applied[v] <= 1
                      /\ v > 1 => applied[v] <= applied[v - 1]

\* A process serves only on a database that has all of them (main).
ServesMigrated ==
  \A p \in Instances : stage[p] \in Serving =>
    Migrated /\ ~schema.dirty /\ \A v \in Versions : applied[v] = 1

\* Both: what every process relies on that starts beside others, and after
\* processes that were killed (RunWithPostgresDriver).
SchemaSound == MigratedOnce /\ ServesMigrated

\* "graceful shutdown": a process that serves and is told to stop comes to its
\* end, though connections may be in use when the 20 seconds are over.
StopEnds ==
  \A p \in Instances :
    (stage[p] \in Serving /\ stopped[p]) ~> stage[p] = "off"
=============================================================================
