------------------------------ MODULE KateCodec ------------------------------
(***************************************************************************)
(* The Ogg Kate codec handler of src/format_kate.c, for one logical       *)
(* stream.  initial_kate_page looks at the BOS page and, if it starts a   *)
(* Kate stream, creates the codec; process_kate_page then takes each page *)
(* into the codec's ogg_stream_state, reads its packets out, and either   *)
(* attaches the page as a header page or passes it on as data.            *)
(*                                                                         *)
(* HaveKate selects the build: with libkate, kate_ogg_decode_headerin     *)
(* decides what a header is (it fails on a non-header and returns 1 on   *)
(* the last of the NumHeaders headers the ID header announced); without  *)
(* it, a packet with the top bit set is a header and the first other     *)
(* packet ends the header scan.                                            *)
(*                                                                         *)
(* Packets are abstracted to their kind: "id" (0x80, at least 64 bytes),  *)
(* "idshort" (0x80, shorter), "hdr" (another header), "data", and the    *)
(* BOS packet of another codec, "other".  The source client is the        *)
(* environment: it sends the BOS page, then the NumHeaders-1 remaining    *)
(* headers one or two to a page, then data pages of one or two packets;  *)
(* with Malformed it may also send a page libogg refuses ("corrupt") or a *)
(* page holding a short ID header.                                        *)
(***************************************************************************)
EXTENDS Integers, Sequences

CONSTANTS
    HaveKate,   \* built with libkate (HAVE_KATE)
    NumHeaders, \* headers the ID header announces (ki.num_headers, packet[11])
    Malformed,  \* the client may send malformed pages
    MaxPages    \* bound on the pages the client sends

ASSUME HaveKate \in BOOLEAN /\ Malformed \in BOOLEAN
ASSUME NumHeaders \in Nat \ {0, 1} /\ MaxPages \in Nat

VARIABLES
    codec,          \* "none" before the BOS page, "kate", "rejected" or "freed"
    os,             \* packets in codec->os not yet read out
    headers,        \* codec->headers
    numHeaders,     \* kate->num_headers
    headersDone,    \* kate->headers_done
    decoded,        \* headers libkate's kate_info has taken in
    error,          \* ogg_info->error
    sent,           \* headers the client has sent, the ID header included
    routed          \* history: each page's kind and what became of it

vars == <<codec, os, headers, numHeaders, headersDone, decoded, error, sent,
          routed>>

HeaderKinds == {"id", "idshort", "hdr"}

Init ==
    /\ codec = "none" /\ os = <<>>
    /\ headers = 0 /\ numHeaders = 0 /\ headersDone = FALSE /\ decoded = 0
    /\ error = FALSE /\ sent = 0 /\ routed = <<>>

(* What becomes of a page: a record r of the handler's local and codec  *)
(* state, with r.buf the packets still in the stream and r.exit "loop", *)
(* "break" or "return" (return NULL, page neither attached nor queued). *)

(* kate_ogg_decode_headerin: <0 for anything but the next header, 1 for *)
(* the last one.                                                         *)
HeaderIn(r, p) ==
    IF p # "hdr" \/ r.decoded >= NumHeaders THEN -1
    ELSE IF r.decoded + 1 = NumHeaders THEN 1 ELSE 0

(* Mutant: header_page is not set for a header packet. *)
KatePacketNoHeaderPage(r, p) ==
    IF ~r.headersDone
       THEN LET ret == HeaderIn(r, p)
            IN IF ret < 0 THEN [r EXCEPT !.error = TRUE, !.exit = "return"]
               ELSE [r EXCEPT !.decoded = @ + 1,
                              !.numHeaders = NumHeaders, !.headers = @ + 1,
                              !.headersDone = ret > 0]
    ELSE IF r.headers < r.numHeaders
       THEN [r EXCEPT !.error = TRUE, !.exit = "return"]
    ELSE r

(* Mutant: the loop stops at the first packet once the headers are done. *)
KatePacketBreakOnData(r, p) ==
    IF ~r.headersDone
       THEN LET ret == HeaderIn(r, p)
            IN IF ret < 0 THEN [r EXCEPT !.error = TRUE, !.exit = "return"]
               ELSE [r EXCEPT !.decoded = @ + 1, !.headerPage = TRUE,
                              !.numHeaders = NumHeaders, !.headers = @ + 1,
                              !.headersDone = ret > 0]
    ELSE IF r.headers < r.numHeaders
       THEN [r EXCEPT !.error = TRUE, !.exit = "return"]
    ELSE [r EXCEPT !.exit = "break"]

(* Mutant: headers_done is set by any header libkate accepts. *)
KatePacketDoneEarly(r, p) ==
    IF ~r.headersDone
       THEN LET ret == HeaderIn(r, p)
            IN IF ret < 0 THEN [r EXCEPT !.error = TRUE, !.exit = "return"]
               ELSE [r EXCEPT !.decoded = @ + 1, !.headerPage = TRUE,
                              !.numHeaders = NumHeaders, !.headers = @ + 1,
                              !.headersDone = ret >= 0]
    ELSE IF r.headers < r.numHeaders
       THEN [r EXCEPT !.error = TRUE, !.exit = "return"]
    ELSE r

(* One pass of the packet loop with libkate. *)
KatePacket(r, p) ==
    IF ~r.headersDone
       THEN LET ret == HeaderIn(r, p)
            IN IF ret < 0 THEN [r EXCEPT !.error = TRUE, !.exit = "return"]
               ELSE [r EXCEPT !.decoded = @ + 1, !.headerPage = TRUE,
                              !.numHeaders = NumHeaders, !.headers = @ + 1,
                              !.headersDone = ret > 0]
    ELSE IF r.headers < r.numHeaders
       THEN [r EXCEPT !.error = TRUE, !.exit = "return"]
    ELSE r

(* One pass of the packet loop without libkate (headers_done is never   *)
(* set, so every packet goes through the header test).                  *)
RawPacket(r, p) ==
    LET hp == p \in HeaderKinds
    IN IF ~hp THEN [r EXCEPT !.headerPage = FALSE, !.exit = "break"]
       ELSE IF p = "idshort" THEN [r EXCEPT !.headerPage = TRUE,
                                             !.headers = @ + 1,
                                             !.exit = "return"]
       ELSE [r EXCEPT !.headerPage = TRUE, !.headers = @ + 1,
                      !.numHeaders = IF p = "id" THEN NumHeaders ELSE @]

(* while (ogg_stream_packetout (&codec->os, &packet) > 0) *)
RECURSIVE PacketLoop(_)
PacketLoop(r) ==
    IF r.buf = <<>> \/ r.exit # "loop" THEN r
    ELSE LET p == Head(r.buf)
             r1 == [r EXCEPT !.buf = Tail(r.buf)]
         IN PacketLoop(IF HaveKate THEN KatePacket(r1, p) ELSE RawPacket(r1, p))

(* initial_kate_page: read the first packet of the BOS page and check it *)
(* is a Kate ID header (by libkate, or by its magic); if so the codec    *)
(* starts with one header and the page is attached as a header page.     *)
InitialKatePage(p) ==
    /\ codec = "none"
    /\ LET isKate == p = "id"
       IN IF isKate
             THEN /\ codec' = "kate" /\ headers' = 1
                  /\ decoded' = IF HaveKate THEN 1 ELSE 0
                  /\ routed' = <<[kind |-> "header", to |-> "attached"]>>
                  /\ UNCHANGED <<os, numHeaders, headersDone, error>>
             ELSE /\ codec' = "rejected"
                  /\ UNCHANGED <<os, headers, numHeaders, headersDone,
                                 decoded, error, routed>>
    /\ sent' = 1

(* process_kate_page for page pg, the client calling it "header",       *)
(* "data" or "malformed".  A page libogg refuses sets the error; otherwise the packet  *)
(* loop runs over what the stream holds, and the page is attached if the *)
(* last packet looked at was a header, passed on as data otherwise, or  *)
(* neither when the loop returned.                                       *)
ProcessKatePage(pg, kind) ==
    /\ codec = "kate" /\ ~error
    /\ Len(routed) < MaxPages
    /\ IF pg = <<"corrupt">>
          THEN /\ error' = TRUE
               /\ routed' = Append(routed, [kind |-> kind, to |-> "error"])
               /\ UNCHANGED <<os, headers, numHeaders, headersDone, decoded>>
          ELSE LET r == PacketLoop([buf |-> os \o pg, headers |-> headers,
                                    numHeaders |-> numHeaders,
                                    headersDone |-> headersDone,
                                    decoded |-> decoded, error |-> error,
                                    headerPage |-> FALSE, exit |-> "loop"])
                   to == CASE r.exit = "return" /\ r.error -> "error"
                           [] r.exit = "return" -> "dropped"
                           [] r.headerPage -> "attached"
                           [] OTHER -> "queued"
               IN /\ os' = r.buf /\ headers' = r.headers
                  /\ numHeaders' = r.numHeaders /\ decoded' = r.decoded
                  /\ headersDone' = r.headersDone /\ error' = r.error
                  /\ routed' = Append(routed, [kind |-> kind, to |-> to])
    /\ UNCHANGED codec

(* The pages a well-behaved client sends next: the remaining headers, *)
(* one or two to a page, then data.                                    *)
ClientPages ==
    IF sent < NumHeaders
       THEN {<<"hdr">>} \cup (IF sent + 2 <= NumHeaders
                               THEN {<<"hdr", "hdr">>} ELSE {})
       ELSE {<<"data">>, <<"data", "data">>}

(* The client's next page and its header count, malformed ones included. *)
SendPage ==
    \/ \E pg \in ClientPages :
         /\ ProcessKatePage(pg, IF pg[1] = "hdr" THEN "header" ELSE "data")
         /\ sent' = sent + (IF pg[1] = "hdr" THEN Len(pg) ELSE 0)
    \/ /\ Malformed
       /\ \E pg \in {<<"corrupt">>, <<"idshort">>} :
            ProcessKatePage(pg, "malformed")
       /\ UNCHANGED sent

(* kate_codec_free, called by the Ogg layer when the logical stream ends *)
(* or the source goes away: ogg_stream_clear drops whatever codec->os     *)
(* still holds, and the codec is freed.                                   *)
KateCodecFree ==
    /\ codec = "kate"
    /\ codec' = "freed"
    /\ os' = <<>>
    /\ UNCHANGED <<headers, numHeaders, headersDone, decoded, error, sent,
                   routed>>

Next ==
    \/ \E p \in {"id", "other"} : InitialKatePage(p)
    \/ SendPage
    \/ KateCodecFree

Spec == Init /\ [][Next]_vars

-----------------------------------------------------------------------------
TypeOK ==
    /\ codec \in {"none", "kate", "rejected", "freed"}
    /\ os \in Seq(HeaderKinds \cup {"data"})
    /\ {headers, numHeaders, decoded, sent} \subseteq Nat
    /\ {headersDone, error} \subseteq BOOLEAN

(* process_kate_page attaches every header page the client sends as a   *)
(* header page and passes every data page on as data, unless it flags   *)
(* the stream in error; and no page, malformed or not, is dropped        *)
(* without the error being flagged.                                      *)
PageRouting ==
    \A i \in DOMAIN routed :
        /\ routed[i].to # "dropped"
        /\ routed[i].kind = "header" => routed[i].to \in {"attached", "error"}
        /\ routed[i].kind = "data" => routed[i].to \in {"queued", "error"}

(* While the stream is good, codec->headers is the number of header     *)
(* packets the client has sent, and with libkate the headers are done   *)
(* exactly when all NumHeaders of them have arrived.                    *)
HeaderCount ==
    codec = "kate" /\ ~error =>
        /\ headers = sent
        /\ HaveKate => (headersDone <=> sent = NumHeaders)

(* Each process_kate_page call reads every packet of its page out of    *)
(* codec->os, so the stream holds nothing between pages.                 *)
BacklogDrained == codec = "kate" /\ ~error => os = <<>>
=============================================================================
