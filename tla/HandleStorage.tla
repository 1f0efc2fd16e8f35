--------------------------- MODULE HandleStorage ---------------------------
(***************************************************************************)
(* snownet-src/snownet_handle.cc: the table from handles to contexts, and  *)
(* the sorted table of the names of services.                              *)
(*                                                                         *)
(* A context is stored at its handle modulo the size of the table, which   *)
(* doubles when no slot is free.  Handles are given out in sequence and    *)
(* wrap at HANDLE_MASK.  snownet_handle_register returns the handle, and   *)
(* its caller, snownet_context_new, stores it in the context only then:    *)
(* between the two the context is in the table with handle 0.              *)
(*                                                                         *)
(* Every function that takes the table's lock for its whole body is one    *)
(* action, as the lock promises (RWLock.tla is about whether it delivers). *)
(* The harbor byte is the same in every handle and outside every mask, and *)
(* is left out.                                                            *)
(***************************************************************************)
EXTENDS Integers, Sequences, FiniteSets

CONSTANTS
    Context,             \* the contexts that may be registered, each once
    Launcher,            \* threads that call snownet_context_new
    Aborter,             \* threads that call snownet_handle_retireall
    Name,                \* service names, numbers for their strcmp order
    NULL,                \* an empty slot
    DEFAULT_SLOT_SIZE,   \* 4 in the code
    HANDLE_MASK,         \* the greatest handle, 0xffffff in the code
    MaxNaming            \* bound: calls of snownet_handle_namehandle

(* HANDLE_MASK + 1 is a power of two (twice any smaller divisor divides    *)
(* it), and the first size another.                                        *)
ASSUME HandleAssumption ==
    /\ NULL \notin Context
    /\ Name \subseteq Nat
    /\ HANDLE_MASK \in Nat \ {0}
    /\ \A d \in 1..HANDLE_MASK :
           (HANDLE_MASK + 1) % d = 0 => (HANDLE_MASK + 1) % (2 * d) = 0
    /\ DEFAULT_SLOT_SIZE \in 2..HANDLE_MASK+1
    /\ (HANDLE_MASK + 1) % DEFAULT_SLOT_SIZE = 0
    /\ Launcher \cap Aborter = {}
    /\ MaxNaming \in Nat

Handle == 1..HANDLE_MASK

VARIABLES
    slot_size, slot,     \* the table
    handle_index,        \* where the search for a free handle starts
    name,                \* the names, a sequence of [name, handle]
    namings,             \* calls of snownet_handle_namehandle so far
    handle,              \* handle[c]: the handle stored in context c, 0 if none
    fault,               \* what stopped the process, if anything did
    ctx, got,            \* per launcher: its context, the handle it was given
    scan, retired,       \* per aborter: the slot it looks at, n > 0 in this pass
    doomed,              \* per aborter: the handle it is to retire
    seen,                \* per aborter: history, the table as the pass began
    pc

table    == <<slot_size, slot, handle_index>>
names    == <<name, namings>>
launching == <<ctx, got>>
aborting == <<scan, retired, doomed, seen>>
vars == <<table, names, handle, fault, launching, aborting, pc>>

TypeOK ==
    /\ slot_size \in Nat \ {0}
    /\ slot \in [0..slot_size-1 -> Context \cup {NULL}]
    /\ handle_index \in 1..HANDLE_MASK+1
    /\ name \in Seq([name : Name, handle : Handle])
    /\ handle \in [Context -> 0..HANDLE_MASK]
    /\ fault \in {"none", "collision", "null", "full"}
    /\ ctx \in [Launcher -> Context \cup {NULL}]
    /\ got \in [Launcher -> 0..HANDLE_MASK]
    /\ scan \in [Aborter -> Nat] /\ retired \in [Aborter -> BOOLEAN]
    /\ doomed \in [Aborter -> 0..HANDLE_MASK]
    /\ seen \in [Aborter -> SUBSET Context]
    /\ pc \in [Launcher \cup Aborter -> {"idle", "assign", "scan", "retire", "done"}]

Init ==
    /\ slot_size = DEFAULT_SLOT_SIZE
    /\ slot = [k \in 0..DEFAULT_SLOT_SIZE-1 |-> NULL]
    /\ handle_index = 1
    /\ name = <<>> /\ namings = 0
    /\ handle = [c \in Context |-> 0]
    /\ fault = "none"
    /\ ctx = [t \in Launcher |-> NULL] /\ got = [t \in Launcher |-> 0]
    /\ scan = [t \in Aborter |-> 0] /\ retired = [t \in Aborter |-> FALSE]
    /\ doomed = [t \in Aborter |-> 0] /\ seen = [t \in Aborter |-> {}]
    /\ pc = [t \in Launcher \cup Aborter |-> "idle"]

Goto(t, l) == pc' = [pc EXCEPT ![t] = l]
-----------------------------------------------------------------------------
(* The slot of handle h in a table of that size (a power of two)           *)
Hash(h, size) == h % size

Registered == {c \in Context : \E k \in DOMAIN slot : slot[k] = c}

(* The handle tried at round k of the search: they follow handle_index and *)
(* go on from 1 after HANDLE_MASK, 0 being reserved.                       *)
Candidate(k) ==
    LET h == handle_index + k
    IN  IF h > HANDLE_MASK THEN ((h - HANDLE_MASK - 1) % HANDLE_MASK) + 1 ELSE h

(* The rounds of the search of table sl that would find a free slot        *)
FreeRounds(sl, size) ==
    {k \in 0..size-1 : sl[Hash(Candidate(k), size)] = NULL}

RehashInPlace(k) == k                                \* mutant of Rehash

(* The table twice as large: each context goes where the handle it has now *)
(* says; two that go to one slot fail the assertion new_slot[hash] == NULL. *)
Rehash(k) == Hash(handle[slot[k]], 2 * slot_size)
Collides == \E j, k \in DOMAIN slot : j # k /\ Rehash(j) = Rehash(k)
Doubled ==
    [b \in 0..2*slot_size-1 |->
        LET from == {k \in DOMAIN slot : Rehash(k) = b}
        IN  IF from = {} THEN NULL ELSE slot[CHOOSE k \in from : TRUE]]

(* The slot is taken and the lock released; the handle is with the caller. *)
Store(t, c, sl, size) ==
    LET rounds == FreeRounds(sl, size)
        h == Candidate(CHOOSE k \in rounds : \A j \in rounds : k <= j)
    IN  /\ slot_size' = size
        /\ slot' = [sl EXCEPT ![Hash(h, size)] = c]
        /\ handle_index' = h + 1
        /\ ctx' = [ctx EXCEPT ![t] = c]
        /\ got' = [got EXCEPT ![t] = h]
        /\ Goto(t, "assign")
        /\ UNCHANGED fault

Stop(why) == fault' = why /\ UNCHANGED <<table, launching, pc>>

Fresh(c) == handle[c] = 0 /\ c \notin Registered

(* snownet_handle_register(ctx): a search that finds no free slot doubles  *)
(* the table, reading the handle of the context in every slot, and is made *)
(* again.                                                                  *)
Register(t, c) ==
    /\ pc[t] = "idle"
    /\ Fresh(c)
    /\ IF FreeRounds(slot, slot_size) # {} THEN Store(t, c, slot, slot_size)
       ELSE IF 2 * slot_size - 1 > HANDLE_MASK THEN Stop("full")
       ELSE IF \E k \in DOMAIN slot : slot[k] = NULL THEN Stop("null")
       ELSE IF Collides THEN Stop("collision")
       ELSE Store(t, c, Doubled, 2 * slot_size)
    /\ UNCHANGED <<names, handle, aborting>>

(* snownet_context_new: ctx->handle = snownet_handle_register(ctx)         *)
Assign(t) ==
    /\ pc[t] = "assign"
    /\ handle' = [handle EXCEPT ![ctx[t]] = got[t]]
    /\ ctx' = [ctx EXCEPT ![t] = NULL]
    /\ got' = [got EXCEPT ![t] = 0]
    /\ Goto(t, "idle")
    /\ UNCHANGED <<table, names, fault, aborting>>
-----------------------------------------------------------------------------
(* snownet_handle_grab: the context with that handle, or NULL              *)
Grabbed(h) ==
    LET c == slot[Hash(h, slot_size)]
    IN  IF c # NULL /\ handle[c] = h THEN c ELSE NULL

(* The names of other handles than h, in their order                       *)
NamedOtherwise(h) ==
    LET kept[i \in 0..Len(name)] ==
            IF i = 0 THEN <<>>
            ELSE IF name[i].handle = h THEN kept[i-1] ELSE Append(kept[i-1], name[i])
    IN  kept[Len(name)]

(* snownet_handle_retire(h), which drops the names of h too                *)
Remove(h) ==
    IF Grabbed(h) # NULL
    THEN /\ slot' = [slot EXCEPT ![Hash(h, slot_size)] = NULL]
         /\ name' = NamedOtherwise(h)
    ELSE UNCHANGED <<slot, name>>

Retire(h) ==
    /\ Remove(h)
    /\ UNCHANGED <<slot_size, handle_index, namings, handle, fault, launching, aborting, pc>>
-----------------------------------------------------------------------------
SearchShort(nm) ==                                   \* mutant of Search
    LET find[r \in (0..Len(name)) \X (-1..Len(name)-1)] ==
            LET b == r[1]
                e == r[2]
                mid == (b + e) \div 2
            IN  IF b >= e THEN [found |-> FALSE, at |-> b]
                ELSE IF name[mid+1].name = nm THEN [found |-> TRUE, at |-> mid]
                ELSE IF name[mid+1].name < nm THEN find[<<mid+1, e>>]
                ELSE find[<<b, mid-1>>]
    IN  find[<<0, Len(name)-1>>]

(* The binary search of _insert_name and snownet_handle_findname, between  *)
(* b and e                                                                 *)
Search(nm) ==
    LET find[r \in (0..Len(name)) \X (-1..Len(name)-1)] ==
            LET b == r[1]
                e == r[2]
                mid == (b + e) \div 2
            IN  IF b > e THEN [found |-> FALSE, at |-> b]
                ELSE IF name[mid+1].name = nm THEN [found |-> TRUE, at |-> mid]
                ELSE IF name[mid+1].name < nm THEN find[<<mid+1, e>>]
                ELSE find[<<b, mid-1>>]
    IN  find[<<0, Len(name)-1>>]

(* snownet_handle_findname *)
FindName(nm) ==
    LET s == Search(nm) IN IF s.found THEN name[s.at + 1].handle ELSE 0

(* snownet_handle_namehandle: a name already taken keeps its handle, and   *)
(* nobody asks whether the handle is still registered                      *)
NameHandle(nm, h) ==
    /\ namings < MaxNaming /\ namings' = namings + 1
    /\ LET s == Search(nm)
       IN  name' = IF s.found THEN name
                   ELSE SubSeq(name, 1, s.at) \o <<[name |-> nm, handle |-> h]>>
                        \o SubSeq(name, s.at + 1, Len(name))
    /\ UNCHANGED <<table, handle, fault, launching, aborting, pc>>
-----------------------------------------------------------------------------
Assigned == {c \in Registered : handle[c] # 0}

(* snownet_handle_retireall: passes over the table until one finds nothing *)
StartPass(t) ==
    /\ scan' = [scan EXCEPT ![t] = 0]
    /\ retired' = [retired EXCEPT ![t] = FALSE]
    /\ seen' = [seen EXCEPT ![t] = Assigned]
    /\ Goto(t, "scan")

Abort(t) ==
    /\ pc[t] = "idle"
    /\ StartPass(t)
    /\ UNCHANGED <<table, names, handle, fault, launching, doomed>>

(* One slot is looked at under the read lock: its context's handle, if any *)
Scan(t) ==
    /\ pc[t] = "scan" /\ scan[t] < slot_size
    /\ LET c == slot[scan[t]]
       IN  IF c # NULL /\ handle[c] # 0
           THEN /\ doomed' = [doomed EXCEPT ![t] = handle[c]]
                /\ Goto(t, "retire")
                /\ UNCHANGED scan
           ELSE /\ scan' = [scan EXCEPT ![t] = @ + 1]
                /\ UNCHANGED <<doomed, pc>>
    /\ UNCHANGED <<table, names, handle, fault, launching, retired, seen>>

(* ... and retired under the write lock, if it is still there              *)
RetireScanned(t) ==
    /\ pc[t] = "retire"
    /\ Remove(doomed[t])
    /\ retired' = [retired EXCEPT ![t] = @ \/ Grabbed(doomed[t]) # NULL]
    /\ doomed' = [doomed EXCEPT ![t] = 0]
    /\ scan' = [scan EXCEPT ![t] = @ + 1]
    /\ Goto(t, "scan")
    /\ UNCHANGED <<slot_size, handle_index, namings, handle, fault, launching, seen>>

EndPassAtFirst(t) ==                                 \* mutant of EndPass
    /\ pc[t] = "scan" /\ scan[t] >= DEFAULT_SLOT_SIZE
    /\ IF retired[t] THEN StartPass(t)
       ELSE Goto(t, "done") /\ UNCHANGED <<scan, retired, seen>>
    /\ UNCHANGED <<table, names, handle, fault, launching, doomed>>

EndPass(t) ==
    /\ pc[t] = "scan" /\ scan[t] >= slot_size
    /\ IF retired[t] THEN StartPass(t)
       ELSE Goto(t, "done") /\ UNCHANGED <<scan, retired, seen>>
    /\ UNCHANGED <<table, names, handle, fault, launching, doomed>>
-----------------------------------------------------------------------------
(* The handles that some service may know and use                          *)
Given == {handle[c] : c \in Context} \ {0}

Next ==
    /\ fault = "none"
    /\ \/ \E t \in Launcher : Assign(t) \/ \E c \in Context : Register(t, c)
       \/ \E h \in Given : Retire(h) \/ \E nm \in Name : NameHandle(nm, h)
       \/ \E t \in Aborter : Abort(t) \/ Scan(t) \/ RetireScanned(t) \/ EndPass(t)

Spec == Init /\ [][Next]_vars
-----------------------------------------------------------------------------
(* A service in the table is the one its handle finds, through every       *)
(* expansion of the table and every reuse of a slot; so a message sent to  *)
(* its handle reaches it, nobody else, and kill and abort can end it; the  *)
(* state keeps its types.                                                  *)
RegisteredIsFound ==
    /\ TypeOK
    /\ \A c \in Assigned :
           /\ Grabbed(handle[c]) = c
           /\ \A k \in DOMAIN slot : slot[k] = c => k = Hash(handle[c], slot_size)

(* The binary search agrees with the table it searches: a name is found    *)
(* exactly if it is there, and is there once.                              *)
NamesAreFound ==
    /\ \A j, k \in 1..Len(name) : j < k => name[j].name < name[k].name
    /\ \A nm \in Name :
        IF \E k \in 1..Len(name) : name[k].name = nm
        THEN \E k \in 1..Len(name) : name[k] = [name |-> nm, handle |-> FindName(nm)]
        ELSE FindName(nm) = 0

(* snownet_handle_retireall returns only when every service that was in    *)
(* the table as its last pass began is out of it, even if the table was    *)
(* doubled or filled during the pass.                                      *)
AbortRetiresAll ==
    \A t \in Aborter : pc[t] = "done" => seen[t] \cap Registered = {}
=============================================================================
