------------------------------- MODULE RefBuf -------------------------------
(***************************************************************************)
(* The reference-counted buffers of src/refbuf.c.  A refbuf_t has a       *)
(* count, a "next" link and an "associated" link.  refbuf_release frees a *)
(* buffer when its count reaches 0 and first releases its associated     *)
(* list, which refbuf_release_associated walks along the "next" links.   *)
(* refbuf_copy_default copies a buffer and, per its comment, the          *)
(* associated buffers.                                                   *)
(*                                                                         *)
(* The callers (format and source code outside src/) are the environment: *)
(* they hold references, take new ones with refbuf_addref, give one up   *)
(* with refbuf_release, and append a buffer they solely own to another's *)
(* associated list (the list is "associated" then "next" links, as        *)
(* refbuf_release_associated reads it).  A buffer is never reused once    *)
(* freed, so a pointer to a freed buffer is recognisable as dangling.    *)
(***************************************************************************)
EXTENDS Naturals, Sequences, SequencesExt, FiniteSets

CONSTANTS
    Bufs,       \* the memory that refbuf_new may hand out
    NULL,       \* the null pointer
    MaxHeld     \* bound on the references callers hold on one buffer

ASSUME NULL \notin Bufs /\ MaxHeld \in Nat \ {0}

VARIABLES
    st,         \* "fresh" (never allocated), "live" or "freed"
    count,      \* refbuf->_count
    next,       \* refbuf->next
    assoc,      \* refbuf->associated
    content,    \* whose data the buffer holds (memcpy copies it)
    held,       \* references held by callers
    uaf,        \* history: a freed buffer was read, written or freed again
    copies      \* history: for each refbuf_copy_default, the contents of
                \* the original's associated list and of the copy's

vars == <<st, count, next, assoc, content, held, uaf, copies>>

Ptr == Bufs \cup {NULL}
Live == {b \in Bufs : st[b] = "live"}
Fresh == {b \in Bufs : st[b] = "fresh"}

(* The buffers reached from x by the links nx, x first. *)
RECURSIVE PathBy(_, _)
PathBy(nx, x) == IF x = NULL THEN <<>> ELSE <<x>> \o PathBy(nx, nx[x])

(* The associated list of p, as refbuf_release_associated walks it. *)
AssocList(p) == PathBy(next, assoc[p])

Contents(s) == [i \in DOMAIN s |-> content[s[i]]]

Init ==
    /\ st = [b \in Bufs |-> "fresh"]
    /\ count = [b \in Bufs |-> 0]
    /\ next = [b \in Bufs |-> NULL]
    /\ assoc = [b \in Bufs |-> NULL]
    /\ content = [b \in Bufs |-> b]
    /\ held = [b \in Bufs |-> 0]
    /\ uaf = FALSE
    /\ copies = {}

-----------------------------------------------------------------------------
(* refbuf_release and refbuf_release_associated, as functions of a record *)
(* r = [count, next, st, uaf].  Touching a freed buffer sets r.uaf.       *)
RECURSIVE Release(_, _), ReleaseAssociated(_, _)

(* Mutant: the next link is read after the buffer has been released. *)
ReleaseAssociatedLateNext(r, ref) ==
    IF ref = NULL THEN r
    ELSE LET r1 == IF r.count[ref] = 1 THEN [r EXCEPT !.next[ref] = NULL]
                   ELSE r
             r2 == Release(r1, ref)
         IN ReleaseAssociated([r2 EXCEPT !.uaf = @ \/ r2.st[ref] = "freed"],
                              r2.next[ref])

(* Walk the list by "next": remember the successor, clear the link of a  *)
(* buffer only this list references, release it, go on.                 *)
ReleaseAssociated(r, ref) ==
    IF ref = NULL THEN r
    ELSE LET nx == r.next[ref]
             r1 == IF r.count[ref] = 1 THEN [r EXCEPT !.next[ref] = NULL]
                   ELSE r
         IN ReleaseAssociated(Release(r1, ref), nx)

(* Mutant: the associated list is not released with its owner. *)
ReleaseKeepAssociated(r, b) ==
    IF b = NULL THEN r
    ELSE LET r1 == [r EXCEPT !.count[b] = @ - 1, !.uaf = @ \/ r.st[b] # "live"]
         IN IF r1.count[b] = 0 THEN [r1 EXCEPT !.st[b] = "freed"] ELSE r1

(* Drop one reference; at zero release the associated list, then free.  *)
Release(r, b) ==
    IF b = NULL THEN r
    ELSE LET r1 == [r EXCEPT !.count[b] = @ - 1, !.uaf = @ \/ r.st[b] # "live"]
         IN IF r1.count[b] = 0
               THEN [ReleaseAssociated(r1, assoc[b]) EXCEPT !.st[b] = "freed"]
               ELSE r1

-----------------------------------------------------------------------------
(* refbuf_new (refbuf_new_s in the MY_ALLOC build): a zeroed buffer with *)
(* count 1, handed to the caller.  Both abort the process when an        *)
(* allocation fails; no buffer state outlives that, so it is left out.   *)
RefbufNew(b) ==
    /\ b \in Fresh
    /\ st' = [st EXCEPT ![b] = "live"]
    /\ count' = [count EXCEPT ![b] = 1]
    /\ held' = [held EXCEPT ![b] = 1]
    /\ UNCHANGED <<next, assoc, content, uaf, copies>>

(* Mutant: the count is not incremented. *)
RefbufAddrefLost(b) ==
    /\ held[b] > 0 /\ held[b] < MaxHeld
    /\ held' = [held EXCEPT ![b] = @ + 1]
    /\ UNCHANGED <<st, count, next, assoc, content, uaf, copies>>

(* refbuf_addref by a caller that holds a reference. *)
RefbufAddref(b) ==
    /\ held[b] > 0 /\ held[b] < MaxHeld
    /\ count' = [count EXCEPT ![b] = @ + 1]
    /\ held' = [held EXCEPT ![b] = @ + 1]
    /\ UNCHANGED <<st, next, assoc, content, uaf, copies>>

(* refbuf_release by a caller that holds a reference. *)
RefbufRelease(b) ==
    /\ held[b] > 0
    /\ LET r == Release([count |-> count, next |-> next, st |-> st,
                         uaf |-> uaf], b)
       IN /\ count' = r.count
          /\ next' = r.next
          /\ st' = r.st
          /\ uaf' = r.uaf
    /\ held' = [held EXCEPT ![b] = @ - 1]
    /\ UNCHANGED <<assoc, content, copies>>

(* refbuf_copy_default: copy b, then, starting from b's associated       *)
(* buffer, repeatedly copy ITS associated buffer and hang the copy off   *)
(* the previous one, following "associated" links.  The buffers copied   *)
(* are b and the associated chain from its second element on.            *)
RefbufCopyDefault(b) ==
    /\ held[b] > 0
    /\ LET src == <<b>> \o (IF assoc[b] = NULL THEN <<>>
                            ELSE Tail(PathBy(assoc, assoc[b])))
           n == Len(src)
       IN /\ Cardinality(Fresh) >= n
          /\ LET dst == SubSeq(SetToSeq(Fresh), 1, n)
                 D == ToSet(dst)
                 pos(x) == CHOOSE i \in 1..n : dst[i] = x
             IN /\ st' = [x \in Bufs |-> IF x \in D THEN "live" ELSE st[x]]
                /\ count' = [x \in Bufs |-> IF x \in D THEN 1 ELSE count[x]]
                /\ content' = [x \in Bufs |->
                                 IF x \in D THEN content[src[pos(x)]]
                                 ELSE content[x]]
                /\ assoc' = [x \in Bufs |->
                               IF x \in D
                                  THEN IF pos(x) < n THEN dst[pos(x) + 1]
                                       ELSE NULL
                                  ELSE assoc[x]]
                /\ held' = [held EXCEPT ![dst[1]] = 1]
                /\ copies' = copies \cup
                       {[want |-> Contents(AssocList(b)),
                         got |-> LET l == PathBy(next, assoc'[dst[1]])
                                 IN [i \in DOMAIN l |-> content'[l[i]]]]}
    /\ UNCHANGED <<next, uaf>>

(* A caller appends a buffer it solely owns to p's associated list, and *)
(* gives up its reference to the list.                                  *)
Associate(p, c) ==
    /\ held[p] > 0 /\ c # p
    /\ held[c] = 1 /\ count[c] = 1
    /\ IF assoc[p] = NULL
          THEN /\ assoc' = [assoc EXCEPT ![p] = c]
               /\ UNCHANGED next
          ELSE LET l == AssocList(p)
               IN /\ next' = [next EXCEPT ![l[Len(l)]] = c]
                  /\ UNCHANGED assoc
    /\ held' = [held EXCEPT ![c] = 0]
    /\ UNCHANGED <<st, count, content, uaf, copies>>

Next ==
    \E b \in Bufs :
        \/ RefbufNew(b) \/ RefbufAddref(b) \/ RefbufRelease(b)
        \/ RefbufCopyDefault(b)
        \/ \E c \in Bufs : Associate(b, c)

Spec == Init /\ [][Next]_vars

-----------------------------------------------------------------------------
TypeOK ==
    /\ st \in [Bufs -> {"fresh", "live", "freed"}]
    /\ count \in [Bufs -> Nat]   \* unsigned: never decremented below 0
    /\ next \in [Bufs -> Ptr] /\ assoc \in [Bufs -> Ptr]
    /\ content \in [Bufs -> Bufs]
    /\ held \in [Bufs -> 0..MaxHeld]
    /\ uaf \in BOOLEAN

(* Pointers held by callers, and the links of live buffers, only lead to *)
(* live buffers: refbuf_release never frees a buffer somebody can still  *)
(* reach.                                                                *)
NoDanglingPointer ==
    /\ \A b \in Bufs : held[b] > 0 => st[b] = "live"
    /\ \A b \in Live : {next[b], assoc[b]} \subseteq Live \cup {NULL}

(* The release walk never reads, decrements or frees a freed buffer. *)
NoUseAfterFree == ~uaf

(* Every live buffer is reachable from a reference some caller holds:   *)
(* releasing the last reference frees the whole associated list.        *)
Reachable(roots) ==
    LET RECURSIVE Grow(_)
        Grow(S) == LET S1 == S \cup {x \in Bufs : \E y \in S :
                                        x = next[y] \/ x = assoc[y]}
                   IN IF S1 = S THEN S ELSE Grow(S1)
    IN Grow(roots)
NoLeak == Live \subseteq Reachable({b \in Bufs : held[b] > 0})

(* refbuf_copy_default gives the copy the contents of the original's     *)
(* associated list ("assume the associated links are also refbuf").     *)
CopyKeepsAssociated == \A r \in copies : r.got = r.want
=============================================================================
