------------------------------ MODULE Listing ------------------------------
(***************************************************************************)
(* Requests, users or servers as the clients of the API see them           *)
(* (request_repo.go, user_repo.go, server_repo.go): a client creates one,  *)
(* under its own idempotency key or user name, and asks again when it      *)
(* hears nothing; another one walks through the pages of List while rows   *)
(* come, change and go.  Servers have nothing of the kind but a name that  *)
(* others may have as well, and are listed from the oldest on.             *)
(***************************************************************************)
EXTENDS Naturals, FiniteSets

CONSTANTS
  Clients,      \* each creates one request, under its own key
  PageSize,
  MaxRows       \* bound of the ids handed out, and of the rows of one key

ASSUME ListingAssumption == PageSize \in Nat \ {0} /\ MaxRows \in Nat

VARIABLES
  kind,         \* of the rows: "requests", "users" or "servers"
  key,          \* of each row: a client's, or NULL after a PUT without one
  lastId,
  calling,      \* clients that have no answer yet
  made, released,   \* history: rows that came to each key, and rid of it
  walk          \* of the reader: its offset, what it has seen, the rows there
                \* were when it began, and those of them that are left

listVars ==
  <<kind, key, lastId, calling, made, released, walk>>
table == <<kind, key, lastId>>
counts == <<made, released>>

Ids == 1..MaxRows
NoRow == "none"
NullKey == "null"
ASSUME ClientsAreNoMarks == {NoRow, NullKey} \cap Clients = {} /\ NoRow # NullKey

RowIds == {i \in Ids : key[i] # NoRow}
NotWalking == [pc |-> "idle", offset |-> 0, seen |-> {}, left |-> {}]

ListInit ==
  /\ key = [i \in Ids |-> NoRow] /\ lastId = 0
  /\ kind \in {"requests", "users", "servers"}
  /\ calling = Clients
  /\ made = [c \in Clients |-> 0] /\ released = made
  /\ walk = NotWalking
-----------------------------------------------------------------------------
(* Statements.                                                             *)

Keyed == kind # "servers"
NewestFirst == kind # "servers"

KeyUnused(c) == Keyed => \A i \in RowIds : key[i] # c

Insert(c) ==
  /\ KeyUnused(c) /\ lastId < MaxRows
  /\ lastId' = lastId + 1
  /\ key' = [key EXCEPT ![lastId + 1] = c]
  /\ made' = [made EXCEPT ![c] = @ + 1]
  /\ UNCHANGED <<kind, released, walk>>

\* A row comes to the key k, or goes: the one that it had is free again.
Rewritten(i, k) ==
  /\ i \in RowIds /\ k # key[i]
  /\ key' = [key EXCEPT ![i] = k]
  /\ made' = IF k \in Clients THEN [made EXCEPT ![k] = @ + 1] ELSE made
  /\ released' = IF key[i] = NullKey THEN released
                 ELSE [released EXCEPT ![key[i]] = @ + 1]

\* RequestRepo.Update writes every column: a payload with another key gives it
\* to the row, where no other has it, and one without takes the key away.
\* UserRepo.Update leaves the name alone.
UpdateKey(i, k) ==
  /\ kind = "requests"
  /\ k \in Clients => KeyUnused(k) /\ made[k] < MaxRows
  /\ Rewritten(i, k)
  /\ UNCHANGED <<kind, lastId, calling, walk>>

Delete(i) ==
  /\ Rewritten(i, NoRow)
  /\ walk' = [walk EXCEPT !.left = {}]   \* nothing is promised to it any more
  /\ UNCHANGED <<kind, lastId, calling>>

Rank(i) == Cardinality({j \in RowIds : IF NewestFirst THEN j > i ELSE j < i})

\* Mutant: the first row is row 1.
PageFromOne(offset) ==
  {i \in RowIds : offset < Rank(i) /\ Rank(i) <= offset + PageSize}

\* ORDER BY ... LIMIT PageSize OFFSET offset.
Page(offset) ==
  {i \in RowIds : offset <= Rank(i) /\ Rank(i) < offset + PageSize}
-----------------------------------------------------------------------------
(* Clients.                                                                *)

\* The row is there, or was there, and the client hears of it.
Create(c) == c \in calling /\ Insert(c) /\ calling' = calling \ {c}

CreateRefused(c) ==
  /\ c \in calling /\ ~KeyUnused(c)
  /\ calling' = calling \ {c}
  /\ UNCHANGED <<table, counts, walk>>

\* The answer is lost, and the client will ask again.
CreateUnheard(c) == c \in calling /\ Insert(c) /\ UNCHANGED calling

StartWalk ==
  /\ walk.pc = "idle"
  /\ walk' = [pc |-> "walking", offset |-> 0, seen |-> {}, left |-> RowIds]
  /\ UNCHANGED <<table, calling, counts>>

\* The last page is the first that is not full.
ListPage ==
  /\ walk.pc = "walking"
  /\ LET page == Page(walk.offset) IN
     walk' = [walk EXCEPT !.seen = @ \cup page, !.offset = @ + PageSize,
                !.pc = IF Cardinality(page) < PageSize THEN "over" ELSE @]
  /\ UNCHANGED <<table, calling, counts>>

ListRequests == kind = "requests" /\ ListPage
ListUsers == kind = "users" /\ ListPage
ListServers == kind = "servers" /\ ListPage

EndWalk ==
  /\ walk.pc = "over" /\ walk' = NotWalking
  /\ UNCHANGED <<table, calling, counts>>

ListNext ==
  \/ \E c \in Clients : Create(c) \/ CreateRefused(c) \/ CreateUnheard(c)
  \/ \E i \in Ids : Delete(i) \/ \E k \in Clients \cup {NullKey} : UpdateKey(i, k)
  \/ StartWalk \/ ListRequests \/ ListUsers \/ ListServers \/ EndWalk

ListSpec == ListInit /\ [][ListNext]_listVars
-----------------------------------------------------------------------------
(* Properties.                                                             *)

\* Types; ids are handed out in order.
ListTypeOK ==
  /\ key \in [Ids -> Clients \cup {NoRow, NullKey}] /\ lastId \in 0..MaxRows
  /\ RowIds \subseteq 1..lastId
  /\ kind \in {"requests", "users", "servers"}
  /\ calling \subseteq Clients
  /\ made \in [Clients -> Nat] /\ released \in [Clients -> Nat]
  /\ walk \in [pc : {"idle", "walking", "over"}, offset : Nat,
               seen : SUBSET Ids, left : SUBSET Ids]

\* However often a client repeats a call whose answer is lost, it makes one
\* request, or one user, and another only after the first was deleted or lost
\* its key to a PUT; a PUT that gives a row the key counts like a call
\* (idempotency_key, username).
CreatedOnce == Keyed => \A c \in Clients : made[c] <= released[c] + 1

\* A reader who walks through the pages while rows are created and changed
\* misses none that was there when it began (RequestRepo.List and its like).
\* A deletion behind its back moves the rest up, and takes the promise away.
PagesMissNothing == walk.pc = "over" => walk.left \subseteq walk.seen

\* What a client of the lists may count on: both of these, while others
\* create, change and delete (RequestRepo.Create, RequestRepo.List).
ListKept == CreatedOnce /\ PagesMissNothing
=============================================================================
