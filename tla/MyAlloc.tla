------------------------------ MODULE MyAlloc ------------------------------
(***************************************************************************)
(* The MY_ALLOC allocation accounting of src/global.c.  With MY_ALLOC,    *)
(* global.h redirects calloc, malloc, realloc, free and strdup to         *)
(* my_calloc, my_realloc, my_free and my_strdup, which keep, per call     *)
(* site ("function:line"), an alloc_node in global.alloc_tree holding the *)
(* number of live blocks and the bytes they hold.  Each block carries an *)
(* allocheader pointing at its node and holding its length.              *)
(*                                                                         *)
(* Every operation runs under the tree's write lock (my_free reads the    *)
(* header before taking it, but the header belongs to the caller), so an *)
(* operation is one step.  The libc allocator is the environment: calloc  *)
(* and realloc may return NULL when MallocMayFail.  realloc may move a    *)
(* block, which is invisible to the accounting, so a block keeps its     *)
(* handle.  A NULL dereference ends the process: "crashed".              *)
(***************************************************************************)
EXTENDS Naturals, FiniteSets, FiniteSetsExt

CONSTANTS
    Sites,          \* call sites, the keys of global.alloc_tree
    Blocks,         \* the memory the allocator may hand out
    Sizes,          \* request sizes (num*size)
    MallocMayFail   \* whether libc calloc/realloc may return NULL

ASSUME Sizes \subseteq Nat /\ MallocMayFail \in BOOLEAN

VARIABLES
    tree,       \* the sites that have an alloc_node in global.alloc_tree
    count,      \* alloc_node->count
    allocated,  \* alloc_node->allocated
    live,       \* blocks handed out and not yet freed
    info,       \* allocheader->info of each block
    len,        \* allocheader->len of each block
    crashed     \* a NULL pointer was dereferenced

vars == <<tree, count, allocated, live, info, len, crashed>>

Init ==
    /\ tree = {}
    /\ count = [s \in Sites |-> 0]
    /\ allocated = [s \in Sites |-> 0]
    /\ live = {}
    /\ info = [b \in Blocks |-> CHOOSE s \in Sites : TRUE]
    /\ len = [b \in Blocks |-> 0]
    /\ crashed = FALSE

(* libc calloc/realloc: TRUE when it returns memory. *)
MallocResults == IF MallocMayFail THEN BOOLEAN ELSE {TRUE}

(* The node's counters and the block's header for a block b of n bytes *)
(* charged to site s.                                                   *)
Charge(s, b, n) ==
    /\ count' = [count EXCEPT ![s] = @ + 1]
    /\ allocated' = [allocated EXCEPT ![s] = @ + n]
    /\ live' = live \cup {b}
    /\ info' = [info EXCEPT ![b] = s]
    /\ len' = [len EXCEPT ![b] = n]

(* my_calloc at site s for n bytes.  A site seen before: calloc the block *)
(* and charge it; a NULL block is dereferenced (block->info = result).  A *)
(* new site: calloc a node; when that fails return NULL, otherwise calloc *)
(* the block, which is again not checked, and insert the node.           *)
MyCalloc(s, n) ==
    /\ ~crashed
    /\ \E b \in Blocks \ live, ok \in MallocResults :
         IF s \in tree
            THEN IF ok THEN Charge(s, b, n) /\ UNCHANGED <<tree, crashed>>
                 ELSE /\ crashed' = TRUE
                      /\ count' = [count EXCEPT ![s] = @ + 1]
                      /\ UNCHANGED <<tree, allocated, live, info, len>>
            ELSE \E nodeOk \in MallocResults :
                   \/ /\ ~nodeOk
                      /\ UNCHANGED vars
                   \/ /\ nodeOk /\ ~ok
                      /\ crashed' = TRUE
                      /\ UNCHANGED <<tree, count, allocated, live, info, len>>
                   \/ /\ nodeOk /\ ok
                      /\ tree' = tree \cup {s}
                      /\ Charge(s, b, n)
                      /\ UNCHANGED crashed

(* Mutant: a block freed is not taken off its node's byte count. *)
MyFreeKeepBytes(b) ==
    /\ ~crashed /\ b \in live
    /\ count' = [count EXCEPT ![info[b]] = @ - 1]
    /\ live' = live \ {b}
    /\ UNCHANGED <<tree, allocated, info, len, crashed>>

(* my_free of a block the caller holds: debit its node, free the block. *)
MyFree(b) ==
    /\ ~crashed /\ b \in live
    /\ count' = [count EXCEPT ![info[b]] = @ - 1]
    /\ allocated' = [allocated EXCEPT ![info[b]] = @ - len[b]]
    /\ live' = live \ {b}
    /\ UNCHANGED <<tree, info, len, crashed>>

(* Mutant: the old length is not subtracted when a block is resized. *)
ResizeAddOnly(b, n) ==
    /\ allocated' = [allocated EXCEPT ![info[b]] = @ + n]
    /\ len' = [len EXCEPT ![b] = n]

(* Mutant: the old and the new length are swapped. *)
ResizeSwapped(b, n) ==
    /\ allocated' = [allocated EXCEPT ![info[b]] = @ - n + len[b]]
    /\ len' = [len EXCEPT ![b] = n]

(* The accounting of a resized block: the node of the block (not of the *)
(* realloc site) trades the old length for the new one.                 *)
Resize(b, n) ==
    /\ allocated' = [allocated EXCEPT ![info[b]] = @ - len[b] + n]
    /\ len' = [len EXCEPT ![b] = n]

(* my_realloc at site s of block p (NULL when p = "null") to n bytes.   *)
(* NULL: my_calloc.  Size 0: my_free.  Otherwise realloc under the lock *)
(* and dereference the result unchecked.                                 *)
MyRealloc(s, p, n) ==
    /\ ~crashed
    /\ \/ p = "null" /\ MyCalloc(s, n)
       \/ p \in live /\ n = 0 /\ MyFree(p)
       \/ /\ p \in live /\ n # 0
          /\ \E ok \in MallocResults :
               IF ok THEN Resize(p, n) /\ UNCHANGED <<tree, count, live, info, crashed>>
               ELSE crashed' = TRUE /\ UNCHANGED <<tree, count, allocated, live, info, len>>

(* my_strdup at site s of a string of n-1 characters: my_calloc of n   *)
(* bytes, then strcpy into the result, which crashes when my_calloc     *)
(* returned NULL.                                                        *)
MyStrdup(s, n) ==
    /\ ~crashed /\ n > 0
    /\ \/ MyCalloc(s, n) /\ (live' # live \/ crashed')
       \/ /\ s \notin tree /\ MallocMayFail
          /\ crashed' = TRUE
          /\ UNCHANGED <<tree, count, allocated, live, info, len>>

Next ==
    \/ \E s \in Sites, n \in Sizes :
         \/ MyCalloc(s, n)
         \/ MyStrdup(s, n)
         \/ \E p \in Blocks \cup {"null"} : MyRealloc(s, p, n)
    \/ \E b \in Blocks : MyFree(b)

Spec == Init /\ [][Next]_vars

-----------------------------------------------------------------------------
TypeOK ==
    /\ tree \subseteq Sites /\ live \subseteq Blocks
    /\ count \in [Sites -> Nat] /\ allocated \in [Sites -> Nat]
    /\ info \in [Blocks -> Sites] /\ len \in [Blocks -> Nat]
    /\ crashed \in BOOLEAN

(* Until a NULL dereference, each site's alloc_node counts exactly the  *)
(* live blocks charged to it and their bytes, whatever mix of my_calloc, *)
(* my_strdup, my_realloc (including its NULL and size-0 forms, and       *)
(* resizes through another site) and my_free produced them.             *)
SiteAccounting ==
    ~crashed =>
      /\ \A b \in live : info[b] \in tree
      /\ \A s \in tree :
           LET mine == {b \in live : info[b] = s}
           IN /\ count[s] = Cardinality(mine)
              /\ allocated[s] = MapThenSumSet(LAMBDA b : len[b], mine)

(* my_calloc, my_realloc and my_strdup return NULL or usable memory: a  *)
(* failing libc allocation never makes them dereference NULL.           *)
NoNullDereference == ~crashed
=============================================================================
