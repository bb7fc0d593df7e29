---------------------------- MODULE RequestHash ----------------------------
(***************************************************************************)
(* The table of receive requests of the MPI wrappers                       *)
(* (tracer/wrappers/MPI/hash_table.c) and the wrappers that use it         *)
(* (mpi_wrapper_p2p_c.c, mpi_wrapper.c, persistent_requests.c): a receive  *)
(* is entered when it is posted or started, and looked up, traced and      *)
(* removed by whichever call completes it.                                 *)
(*                                                                         *)
(* hash_add and hash_remove hold hash_lock and are one step; hash_search   *)
(* takes no lock, and a step of it is one read of the table.  What a       *)
(* wrapper reads through the pointer it returns is read in one step.       *)
(***************************************************************************)
EXTENDS Integers, Sequences, FiniteSets, SequencesExt

CONSTANTS
    Thread,       \* the threads that call MPI
    Level,        \* the thread level of MPI: only "multiple" lets calls overlap
    Key,          \* the values of MPI_Request, integers
    TableSize,    \* HASH_TABLE_SIZE
    OverflowSize, \* HASH_OVERFLOW_SIZE
    Receive,      \* what the wrappers keep of a receive: partner, tag, communicator
    none,         \* not a receive
    MaxPersistent,\* bound of the model: persistent requests at a time
    MaxFreed      \* bound of the model: active requests of receives freed

ASSUME RequestHashAssumption ==
    /\ Key \subseteq Nat
    /\ TableSize \in Nat \ {0} /\ OverflowSize \in Nat \ {0}
    /\ Level \in {"serialized", "multiple"}
    /\ none \notin Receive
    /\ MaxPersistent \in Nat /\ MaxFreed \in Nat

HASH_NULL == -1
HASH_FREE == -2
MAIN == -3

VARIABLES
    table,      \* the main entries: the data and ovf_link
    overflow,   \* the overflow cells: the data and next
    ovf_free,   \* the first free overflow cell
    PR_queue,   \* the persistent requests
    posted,     \* MPI: the active requests, each with the receive it stands for, or none
                \* for a send or a receive that was cancelled
    pc,         \* where each thread is
    req,        \* the request a thread is adding
    save_reqs,  \* the requests a thread has completed and has still to look up
    cell,       \* where its hash_search is: an overflow cell, MAIN, or a value of ovf_link
                \* that is neither
    refused,    \* history: the requests posted that hash_add had no space for
    freed,      \* history: how many active requests of receives the program has freed
    mishaps     \* history: what has gone wrong when a receive was to be traced

vars == <<table, overflow, ovf_free, PR_queue, posted, pc, req, save_reqs, cell,
          refused, freed, mishaps>>
hash == <<table, overflow, ovf_free>>
history == <<refused, freed, mishaps>>

Data == [key : Key, recv : Receive]
Nobody == [key |-> 0, recv |-> none]

HASH_FUNCTION(k) == k % TableSize
-----------------------------------------------------------------------------
(* The table                                                                *)

\* The overflow cells from a link on, in order.
Chain(start) ==
    LET at[n \in 0..OverflowSize] ==
          IF n = 0 THEN start
          ELSE IF at[n - 1] = HASH_NULL THEN HASH_NULL ELSE overflow[at[n - 1]].next
        cells == {n \in 0..(OverflowSize - 1) : at[n] # HASH_NULL}
    IN  [n \in 1..Cardinality(cells) |-> at[n - 1]]

Used == {c \in 0..(TableSize - 1) : table[c].link # HASH_FREE}
Entries ==
    {table[c].data : c \in Used}
      \cup UNION {{overflow[i].data : i \in Range(Chain(table[c].link))} : c \in Used}

HashHasRoom(k) == table[HASH_FUNCTION(k)].link = HASH_FREE \/ ovf_free # HASH_NULL

\* Mutant: the new overflow cell cuts off the rest of the chain.
hash_add_cut(d) ==
    LET c == HASH_FUNCTION(d.key)
        free == ovf_free
    IN  IF table[c].link = HASH_FREE
        THEN /\ table' = [table EXCEPT ![c] = [data |-> d, link |-> HASH_NULL]]
             /\ UNCHANGED <<overflow, ovf_free>>
        ELSE /\ ovf_free' = overflow[free].next
             /\ overflow' = [overflow EXCEPT ![free] = [data |-> d, next |-> HASH_NULL]]
             /\ table' = [table EXCEPT ![c].link = free]

\* hash_add, when there is room.
hash_add(d) ==
    LET c == HASH_FUNCTION(d.key)
        free == ovf_free
    IN  IF table[c].link = HASH_FREE
        THEN /\ table' = [table EXCEPT ![c] = [data |-> d, link |-> HASH_NULL]]
             /\ UNCHANGED <<overflow, ovf_free>>
        ELSE /\ ovf_free' = overflow[free].next
             /\ overflow' = [overflow EXCEPT ![free] = [data |-> d, next |-> table[c].link]]
             /\ table' = [table EXCEPT ![c].link = free]

\* Mutant: the data of the first overflow cell is not copied.
RemoveMainNoCopy(c) ==
    LET first == table[c].link
    IN  IF first = HASH_NULL
        THEN table' = [table EXCEPT ![c].link = HASH_FREE] /\ UNCHANGED <<overflow, ovf_free>>
        ELSE /\ table' = [table EXCEPT ![c].link = overflow[first].next]
             /\ overflow' = [overflow EXCEPT ![first].next = ovf_free]
             /\ ovf_free' = first

\* hash_remove of a main entry: the first overflow cell takes its place.
RemoveMain(c) ==
    LET first == table[c].link
    IN  IF first = HASH_NULL
        THEN table' = [table EXCEPT ![c].link = HASH_FREE] /\ UNCHANGED <<overflow, ovf_free>>
        ELSE /\ table' = [table EXCEPT ![c] = [data |-> overflow[first].data,
                                               link |-> overflow[first].next]]
             /\ overflow' = [overflow EXCEPT ![first].next = ovf_free]
             /\ ovf_free' = first

\* Mutant: a cell that is not the first is freed and stays in its chain.
RemoveOverflowKeep(c, i) ==
    LET chain == Chain(table[c].link)
    IN  /\ ovf_free' = chain[i]
        /\ table' = IF i = 1 THEN [table EXCEPT ![c].link = overflow[chain[1]].next] ELSE table
        /\ overflow' = [overflow EXCEPT ![chain[i]].next = ovf_free]

\* hash_remove of the i-th overflow cell of a main entry.
RemoveOverflow(c, i) ==
    LET chain == Chain(table[c].link)
        unlinked == IF i = 1 THEN overflow
                    ELSE [overflow EXCEPT ![chain[i - 1]].next = overflow[chain[i]].next]
    IN  /\ ovf_free' = chain[i]
        /\ table' = IF i = 1 THEN [table EXCEPT ![c].link = overflow[chain[1]].next] ELSE table
        /\ overflow' = [unlinked EXCEPT ![chain[i]].next = ovf_free]

\* hash_remove; it complains and does nothing when the key is not found.
hash_remove(k) ==
    LET c == HASH_FUNCTION(k)
        found == {i \in DOMAIN Chain(table[c].link) :
                    overflow[Chain(table[c].link)[i]].data.key = k}
    IN  IF table[c].link = HASH_FREE THEN UNCHANGED hash
        ELSE IF table[c].data.key = k THEN RemoveMain(c)
        ELSE IF found = {} THEN UNCHANGED hash
        ELSE RemoveOverflow(c, CHOOSE i \in found : \A j \in found : i <= j)

-----------------------------------------------------------------------------
\* Mutant: the list of free overflow cells does not end.
NextFreeEndless(i) == i + 1

NextFree(i) == IF i = OverflowSize - 1 THEN HASH_NULL ELSE i + 1

\* hash_init, and the program before its first call.
Init ==
    /\ table = [c \in 0..(TableSize - 1) |-> [data |-> Nobody, link |-> HASH_FREE]]
    /\ overflow = [i \in 0..(OverflowSize - 1) |-> [data |-> Nobody, next |-> NextFree(i)]]
    /\ ovf_free = 0
    /\ PR_queue = {}
    /\ posted = {}
    /\ pc = [t \in Thread |-> "app"]
    /\ req = [t \in Thread |-> Nobody]
    /\ save_reqs = [t \in Thread |-> <<>>]
    /\ cell = [t \in Thread |-> HASH_NULL]
    /\ refused = {}
    /\ freed = 0
    /\ mishaps = {}

At(t, where) == pc[t] = where
Goes(t, where) == pc' = [pc EXCEPT ![t] = where]

\* A thread may call MPI: below MPI_THREAD_MULTIPLE no call overlaps another one.
MayCall(t) == At(t, "app") /\ (Level = "multiple" \/ \A u \in Thread : At(u, "app"))

BeingAdded == {req[t].key : t \in {u \in Thread : At(u, "add")}}
\* MPI may give a new request the value of any it has completed.
NewRequests == Key \ (PR_queue \cup BeingAdded \cup {p.key : p \in posted})

\* The receives the model can tell from those in use.
NewReceives ==
    Receive \ ({e.recv : e \in Entries \cup posted} \cup {req[t].recv : t \in Thread}
                \cup UNION {{p.recv : p \in Range(save_reqs[t])} : t \in Thread})

-----------------------------------------------------------------------------
(* Sends and receives are posted                                            *)

\* PMPI_Isend; the wrapper of a send does not use the table.
MPI_Isend(t) ==
    /\ MayCall(t)
    /\ \E k \in NewRequests : posted' = posted \cup {[key |-> k, recv |-> none]}
    /\ UNCHANGED <<hash, PR_queue, pc, req, save_reqs, cell, history>>

\* PMPI_Irecv has returned.
MPI_Irecv(t) ==
    /\ MayCall(t)
    /\ \E k \in NewRequests, r \in NewReceives :
          req' = [req EXCEPT ![t] = [key |-> k, recv |-> r]]
    /\ Goes(t, "add")
    /\ UNCHANGED <<hash, PR_queue, posted, save_reqs, cell, history>>

\* MPI_Recv_init: PR_NewRequest.
MPI_Recv_init(t) ==
    /\ MayCall(t)
    /\ Cardinality(PR_queue) < MaxPersistent
    /\ \E k \in NewRequests : PR_queue' = PR_queue \cup {k}
    /\ UNCHANGED <<hash, posted, pc, req, save_reqs, cell, history>>

Inactive == PR_queue \ (BeingAdded \cup {p.key : p \in posted})

\* PMPI_Start has returned; Traceja_Persistent_Request finds the request in PR_queue.
MPI_Start(t) ==
    /\ MayCall(t)
    /\ \E k \in Inactive, r \in NewReceives :
          req' = [req EXCEPT ![t] = [key |-> k, recv |-> r]]
    /\ Goes(t, "add")
    /\ UNCHANGED <<hash, PR_queue, posted, save_reqs, cell, history>>

\* The wrapper adds the receive, whatever hash_add returns, and returns the request.
AddsRequest(t) ==
    /\ At(t, "add")
    /\ IF HashHasRoom(req[t].key)
       THEN hash_add(req[t]) /\ UNCHANGED refused
       ELSE refused' = refused \cup {req[t]} /\ UNCHANGED hash
    /\ posted' = posted \cup {req[t]}
    /\ req' = [req EXCEPT ![t] = Nobody]
    /\ Goes(t, "app")
    /\ UNCHANGED <<PR_queue, save_reqs, cell, freed, mishaps>>

-----------------------------------------------------------------------------
(* Requests are completed, cancelled and freed                              *)

\* PMPI_Wait, PMPI_Waitall, or a successful PMPI_Test or PMPI_Testsome, has returned; the
\* values of the requests that are not persistent may be given to others.
Completes(t) ==
    /\ MayCall(t)
    /\ \E p \in posted : \E completed \in {<<p>>} \cup {<<p, q>> : q \in posted \ {p}} :
          /\ save_reqs' = [save_reqs EXCEPT ![t] = completed]
          /\ posted' = posted \ Range(completed)
    /\ Goes(t, "search")
    /\ UNCHANGED <<hash, PR_queue, req, cell, history>>

Mine(t) == Head(save_reqs[t])
MyCell(t) == HASH_FUNCTION(Mine(t).key)

\* hash_search: is the main entry in use?
SearchBegins(t) ==
    /\ At(t, "search")
    /\ Goes(t, IF table[MyCell(t)].link = HASH_FREE THEN "missed" ELSE "search_main")
    /\ UNCHANGED <<hash, PR_queue, posted, req, save_reqs, cell, history>>

\* Is it the key's?
SearchesMain(t) ==
    /\ At(t, "search_main")
    /\ IF table[MyCell(t)].data.key = Mine(t).key
       THEN cell' = [cell EXCEPT ![t] = MAIN] /\ Goes(t, "found")
       ELSE Goes(t, "search_link") /\ UNCHANGED cell
    /\ UNCHANGED <<hash, PR_queue, posted, req, save_reqs, history>>

\* Where does its overflow list begin?
SearchesLink(t) ==
    /\ At(t, "search_link")
    /\ cell' = [cell EXCEPT ![t] = table[MyCell(t)].link]
    /\ Goes(t, "search_cell")
    /\ UNCHANGED <<hash, PR_queue, posted, req, save_reqs, history>>

\* Is the key in this cell? The main entry may have been freed after it was found in use:
\* HASH_FREE is then taken for a cell, and what is read there ends the search or the program.
SearchOutcomes(t) ==
    IF cell[t] = HASH_FREE THEN {"missed", "crashed"}
    ELSE IF cell[t] = HASH_NULL THEN {"missed"}
    ELSE IF overflow[cell[t]].data.key = Mine(t).key THEN {"found"} ELSE {"search_next"}

SearchesCell(t) ==
    /\ At(t, "search_cell")
    /\ \E where \in SearchOutcomes(t) : Goes(t, where)
    /\ UNCHANGED <<hash, PR_queue, posted, req, save_reqs, cell, history>>

SearchesNext(t) ==
    /\ At(t, "search_next")
    /\ cell' = [cell EXCEPT ![t] = overflow[cell[t]].next]
    /\ Goes(t, "search_cell")
    /\ UNCHANGED <<hash, PR_queue, posted, req, save_reqs, history>>

\* The loop of the wrappers that complete several requests goes on.
NextRequest(t) ==
    /\ save_reqs' = [save_reqs EXCEPT ![t] = Tail(@)]
    /\ cell' = [cell EXCEPT ![t] = HASH_NULL]
    /\ Goes(t, IF Len(save_reqs[t]) = 1 THEN "app" ELSE "search")
    /\ refused' = refused \ {Mine(t)}

\* hash_search returned NULL: the wrapper traces no receive.
Missed(t) ==
    /\ At(t, "missed")
    /\ mishaps' = mishaps \cup
          (IF Mine(t) \in Entries THEN {"missed"}
           ELSE IF Mine(t).recv = none \/ Mine(t) \in refused THEN {} ELSE {"wrong"})
    /\ NextRequest(t)
    /\ UNCHANGED <<hash, PR_queue, posted, req, freed>>

\* IRECVED_EV is traced with what the pointer points to now.
Records(t) ==
    /\ At(t, "found")
    /\ LET d == IF cell[t] = MAIN THEN table[MyCell(t)].data ELSE overflow[cell[t]].data
       IN  mishaps' = mishaps \cup (IF d = Mine(t) THEN {} ELSE {"wrong"})
    /\ Goes(t, "remove")
    /\ UNCHANGED <<hash, PR_queue, posted, req, save_reqs, cell, refused, freed>>

RemovesRequest(t) ==
    /\ At(t, "remove")
    /\ hash_remove(Mine(t).key)
    /\ NextRequest(t)
    /\ UNCHANGED <<PR_queue, posted, req, freed, mishaps>>

\* The program cancels a request; it is still to be completed. What hash_search returns is
\* only compared with NULL, and the two calls are one step.
MPI_Cancel(t) ==
    /\ MayCall(t)
    /\ \E p \in posted :
          /\ hash_remove(p.key)
          /\ posted' = (posted \ {p}) \cup {[p EXCEPT !.recv = none]}
          /\ refused' = refused \ {p}
    /\ UNCHANGED <<PR_queue, pc, req, save_reqs, cell, freed, mishaps>>

\* PR_Elimina_request and PMPI_Request_free, of a request that is active or not.
MPI_Request_free(t) ==
    /\ MayCall(t)
    /\ \/ /\ \E k \in Inactive : PR_queue' = PR_queue \ {k}
          /\ UNCHANGED <<posted, freed, refused>>
       \/ \E p \in posted :
             /\ PR_queue' = PR_queue \ {p.key}
             /\ posted' = posted \ {p}
             /\ p.recv # none => freed < MaxFreed
             /\ freed' = IF p.recv = none THEN freed ELSE freed + 1
             /\ refused' = refused \ {p}
    /\ UNCHANGED <<hash, pc, req, save_reqs, cell, mishaps>>

-----------------------------------------------------------------------------
Next == \E t \in Thread :
    \/ MPI_Isend(t) \/ MPI_Irecv(t) \/ MPI_Recv_init(t) \/ MPI_Start(t) \/ AddsRequest(t)
    \/ Completes(t) \/ SearchBegins(t) \/ SearchesMain(t) \/ SearchesLink(t)
    \/ SearchesCell(t) \/ SearchesNext(t) \/ Missed(t) \/ Records(t)
    \/ RemovesRequest(t) \/ MPI_Cancel(t) \/ MPI_Request_free(t)

Spec == Init /\ [][Next]_vars
-----------------------------------------------------------------------------
Link == (0..(OverflowSize - 1)) \cup {HASH_NULL}
Cell == 0..(OverflowSize - 1)

Posted == [key : Key, recv : Receive \cup {none}]

(* Every variable keeps its type.                                           *)
TypeOK ==
    /\ table \in [0..(TableSize - 1) -> [data : Data \cup {Nobody}, link : Link \cup {HASH_FREE}]]
    /\ overflow \in [Cell -> [data : Data \cup {Nobody}, next : Link]]
    /\ ovf_free \in Link
    /\ PR_queue \subseteq Key /\ posted \subseteq Posted
    /\ pc \in [Thread -> {"app", "add", "search", "search_main", "search_link", "search_cell",
                          "search_next", "missed", "found", "remove", "crashed"}]
    /\ req \in [Thread -> Data \cup {Nobody}]
    /\ save_reqs \in [Thread -> Seq(Posted)]
    /\ cell \in [Thread -> Link \cup {HASH_FREE, MAIN}]
    /\ refused \subseteq Data
    /\ freed \in 0..MaxFreed /\ mishaps \subseteq {"missed", "wrong"}

(* Every overflow cell is in the chain of exactly one main entry, or in the *)
(* free list, once, whatever receives are added and removed in whatever     *)
(* order; and an entry is in the chain its key hashes to.                   *)
CellsAccounted ==
    LET lists == {<<c, table[c].link>> : c \in Used} \cup {<<HASH_FREE, ovf_free>>}
    IN  /\ \A i \in Cell : Cardinality({l \in lists : i \in Range(Chain(l[2]))}) = 1
        /\ \A l \in lists : IsInjective(Chain(l[2]))
        /\ \A c \in Used : /\ HASH_FUNCTION(table[c].data.key) = c
                           /\ \A i \in Range(Chain(table[c].link)) :
                                 HASH_FUNCTION(overflow[i].data.key) = c

Requests == INSTANCE RequestMap WITH entries <- Entries

(* The chained table implements the abstract one: an entry never vanishes   *)
(* or comes back but by hash_remove of its key and hash_add, and there is   *)
(* space for a receive unless the overflow area is truly exhausted.         *)
ImplementsRequestMap == Requests!Spec

(* Below MPI_THREAD_MULTIPLE, and unless the program frees requests that    *)
(* are active, the completion of a receive is traced with what was kept of  *)
(* that receive, although MPI gives its value to later requests.            *)
RecordsOwn ==
    Level = "serialized" /\ freed = 0 => mishaps = {}

(* hash_search returns NULL only when the key is not in the table.          *)
SearchFinds == "missed" \notin mishaps
=============================================================================
