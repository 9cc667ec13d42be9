------------------------------- MODULE Milter -------------------------------
(***************************************************************************)
(* The milter daemon of src/milter.rs: run() prepares the rules on one     *)
(* thread and serves every MTA connection on a thread of its own.  A       *)
(* connection thread reads one packet at a time, accumulates the message   *)
(* in a MessageState and, at end-of-message, waits for the rules, cleans   *)
(* the message and writes its answer packet by packet.                     *)
(*                                                                         *)
(* Data is abstracted to lengths: a header is the lengths of its filtered  *)
(* name and of its value, a body chunk is its length.  The MTA may send    *)
(* any command at any time and may disappear at any time.  Two history     *)
(* variables record its side of the conversation: offered, the message it  *)
(* has handed over since the last message boundary, and allowed, the       *)
(* actions it last said it permits.                                        *)
(***************************************************************************)
EXTENDS Naturals, Sequences, SequencesExt

CONSTANTS
  Conn,            \* the MTA's connections
  MaxMessageSize,  \* config.max_message_size, in bytes
  NameLens,        \* lengths a header name can have after filtering
  ValueLens,       \* lengths a header value can have
  ChunkLens,       \* lengths a BODY packet can have
  ReplyChunks,     \* numbers of REPLBODY packets a replaced body can take
  AuditHeaders,    \* numbers of audit headers an answer can carry
  MaxItems         \* bound: its HEADER and BODY packets between two boundaries

ASSUME SizesAreNaturals ==
  /\ MaxMessageSize \in Nat
  /\ NameLens \subseteq Nat
  /\ ValueLens \subseteq Nat
  /\ ChunkLens \subseteq Nat
  /\ ReplyChunks \subseteq Nat
  /\ AuditHeaders \subseteq Nat
  /\ MaxItems \in [Conn -> Nat]

VARIABLES
  prepared,   \* PreparedConfig::state
  fail_open,  \* config.fail_open
  peer,       \* is the MTA's end of the socket up or gone
  pc,         \* control point of the connection thread
  msg,        \* its MessageState
  caps,       \* its Caps
  config,     \* what prepared.wait() returned for this end-of-message
  result,     \* what the cleaner returned for this end-of-message
  sent,       \* what was written in answer to this end-of-message
  offered,    \* history: the message as the MTA handed it over
  allowed     \* history: the actions the MTA permits

vars == <<prepared, fail_open, peer, pc, msg, caps, config, result, sent, offered, allowed>>

-----------------------------------------------------------------------------
(* MessageState: accumulation under the size limit.                        *)

Header == [name : NameLens, value : ValueLens]

EmptyMessage == [headers |-> <<>>, body |-> 0, bytes_seen |-> 0, over_limit |-> FALSE]

\* name ": " value CR LF
HeaderLen(h) == h.name + h.value + 4

\* Variant of WouldExceed that forgets the blank line of reconstruct().
WouldExceedNoSeparator(m, additional) ==
  m.over_limit \/ m.bytes_seen + additional > MaxMessageSize

WouldExceed(m, additional) ==
  \/ m.over_limit
  \/ m.bytes_seen + additional + 2 > MaxMessageSize

\* A name with nothing left after filtering drops the header.
AddHeader(m, h) ==
  IF h.name = 0 THEN m
  ELSE IF WouldExceed(m, HeaderLen(h)) THEN [m EXCEPT !.over_limit = TRUE]
  ELSE [m EXCEPT !.bytes_seen = @ + HeaderLen(h), !.headers = Append(@, h)]

AddBody(m, len) ==
  IF WouldExceed(m, len) THEN [m EXCEPT !.over_limit = TRUE]
  ELSE [m EXCEPT !.bytes_seen = @ + len, !.body = @ + len]

\* Variant of Reset that leaves the byte count behind.
ResetContent(m) == [EmptyMessage EXCEPT !.bytes_seen = m.bytes_seen]

Reset(m) == EmptyMessage

\* Length of the raw message reconstruct() builds.
ReconstructLen(m) ==
  FoldLeft(LAMBDA n, h : n + HeaderLen(h), 0, m.headers) + 2 + m.body

-----------------------------------------------------------------------------
(* The cleaner, as far as the milter can tell its results apart.           *)

NoResult == [modified |-> FALSE, chunks |-> 0, audit |-> 0]

Answer(modified, chunks) ==
  {[modified |-> modified, chunks |-> k, audit |-> n] : k \in chunks, n \in AuditHeaders}

Unmodified == Answer(FALSE, {0})
Modified   == Answer(TRUE, ReplyChunks)

\* Ok results of clean_message: only a message with a body can be modified.
CleanResults(m) == Unmodified \cup IF m.body > 0 THEN Modified ELSE {}

\* clean_message rejects what is too large; it may also fail to parse.
CleanMessageFails(m) == ReconstructLen(m) > MaxMessageSize

\* fail_open_result: the original body, under audit headers of its own.
FailOpenResults == Unmodified

-----------------------------------------------------------------------------
(* The conversation.                                                       *)

NothingSent == [body |-> 0, headers |-> 0, verdict |-> "none"]

NothingOffered == [headers |-> <<>>, body |-> 0, bytes |-> 0, items |-> 0]

\* What the MTA has handed over after one more HEADER or BODY packet.
OfferHeader(o, h) ==
  IF h.name = 0 THEN [o EXCEPT !.items = @ + 1]
  ELSE [headers |-> Append(o.headers, h), body |-> o.body,
        bytes |-> o.bytes + HeaderLen(h), items |-> o.items + 1]

OfferBody(o, len) ==
  [headers |-> o.headers, body |-> o.body + len, bytes |-> o.bytes + len, items |-> o.items + 1]

Actions == [addhdrs : BOOLEAN, chgbody : BOOLEAN]

AllActions == [addhdrs |-> TRUE, chgbody |-> TRUE]

Init ==
  /\ prepared \in {"Loading", "Ready"}
  /\ fail_open \in BOOLEAN
  /\ peer = [c \in Conn |-> "up"]
  /\ pc = [c \in Conn |-> "idle"]
  /\ msg = [c \in Conn |-> EmptyMessage]
  /\ caps = [c \in Conn |-> AllActions]
  /\ config = [c \in Conn |-> "none"]
  /\ result = [c \in Conn |-> NoResult]
  /\ sent = [c \in Conn |-> NothingSent]
  /\ offered = [c \in Conn |-> NothingOffered]
  /\ allowed = [c \in Conn |-> AllActions]

Goto(c, point) == pc' = [pc EXCEPT ![c] = point]

\* write_packet: it may fail, ending the thread, once the peer is gone.
Written(c, point) ==
  \/ Goto(c, point)
  \/ peer[c] = "gone" /\ Goto(c, "closed")

\* A command was read: the answer to the last end-of-message is history.
Reading(c) ==
  /\ pc[c] = "read"
  /\ sent' = [sent EXCEPT ![c] = NothingSent]
  /\ result' = [result EXCEPT ![c] = NoResult]
  /\ config' = [config EXCEPT ![c] = "none"]
  /\ UNCHANGED <<prepared, fail_open, peer>>

\* The preparation thread publishes (PreparedConfig), at most once.  The panic
\* that ends the process instead ends every conversation and is left out here.
Publish ==
  /\ prepared = "Loading"
  /\ prepared' \in {"Ready", "Failed"}
  /\ UNCHANGED <<fail_open, peer, pc, msg, caps, config, result, sent, offered, allowed>>

\* listener.incoming() yields the connection and its thread starts.
Accept(c) ==
  /\ pc[c] = "idle"
  /\ Goto(c, "read")
  /\ UNCHANGED <<prepared, fail_open, peer, msg, caps, config, result, sent, offered, allowed>>

\* External: the MTA closes its end or the network does.
Disconnect(c) ==
  /\ pc[c] # "idle"
  /\ peer[c] = "up"
  /\ peer' = [peer EXCEPT ![c] = "gone"]
  /\ UNCHANGED <<prepared, fail_open, pc, msg, caps, config, result, sent, offered, allowed>>

\* Variant of Negotiated that grants what the milter wants.
NegotiatedWanted(mta) == AllActions

\* want & mta_actions, for the two actions the milter wants.
Negotiated(mta) == mta

\* OPTNEG; a packet too short to hold actions permits all of them.
ReadOptneg(c) ==
  /\ Reading(c)
  /\ \E mta \in Actions :
       /\ caps' = [caps EXCEPT ![c] = Negotiated(mta)]
       /\ allowed' = [allowed EXCEPT ![c] = mta]
  /\ Written(c, "read")
  /\ UNCHANGED <<msg, offered>>

\* MAIL opens a new message and is answered; ABORT drops one in silence.
ReadMail(c) ==
  /\ Reading(c)
  /\ msg' = [msg EXCEPT ![c] = Reset(@)]
  /\ offered' = [offered EXCEPT ![c] = NothingOffered]
  /\ Written(c, "read")
  /\ UNCHANGED <<caps, allowed>>

ReadAbort(c) ==
  /\ Reading(c)
  /\ msg' = [msg EXCEPT ![c] = Reset(@)]
  /\ offered' = [offered EXCEPT ![c] = NothingOffered]
  /\ UNCHANGED <<pc, caps, allowed>>

ReadHeader(c) ==
  /\ Reading(c)
  /\ offered[c].items < MaxItems[c]
  /\ \E h \in Header :
       /\ msg' = [msg EXCEPT ![c] = AddHeader(@, h)]
       /\ offered' = [offered EXCEPT ![c] = OfferHeader(@, h)]
  /\ Written(c, "read")
  /\ UNCHANGED <<caps, allowed>>

ReadBody(c) ==
  /\ Reading(c)
  /\ offered[c].items < MaxItems[c]
  /\ \E len \in ChunkLens :
       /\ msg' = [msg EXCEPT ![c] = AddBody(@, len)]
       /\ offered' = [offered EXCEPT ![c] = OfferBody(@, len)]
  /\ Written(c, "read")
  /\ UNCHANGED <<caps, allowed>>

\* CONNECT, HELO, RCPT, DATA, UNKNOWN, EOH, commands the milter does not know
\* and HEADER packets that do not parse are answered and change nothing.
ReadOther(c) ==
  /\ Reading(c)
  /\ Written(c, "read")
  /\ UNCHANGED <<msg, caps, offered, allowed>>

\* MACRO is not answered.
ReadMacro(c) ==
  /\ Reading(c)
  /\ UNCHANGED <<pc, msg, caps, offered, allowed>>

\* QUIT, end of file between packets, or a packet that cannot be read (cut
\* off, or longer than 256 MiB): the thread ends.
ReadQuit(c) ==
  /\ Reading(c)
  /\ Goto(c, "closed")
  /\ UNCHANGED <<msg, caps, offered, allowed>>

ReadEob(c) ==
  /\ Reading(c)
  /\ Goto(c, "wait")
  /\ UNCHANGED <<msg, caps, offered, allowed>>

-----------------------------------------------------------------------------
(* End of message.                                                         *)

EmitVars == <<prepared, fail_open, peer, caps, config, allowed>>

\* Variant of WaitReturns that takes the first wake-up for the publication.
WaitReturnsUnchecked(c) ==
  /\ pc[c] = "wait"
  /\ config' = [config EXCEPT ![c] = prepared]
  /\ Goto(c, IF prepared = "Ready" THEN "eom" ELSE "closed")
  /\ UNCHANGED <<prepared, fail_open, peer, msg, caps, result, sent, offered, allowed>>

\* Variant of WaitReturns that only ever leaves with rules.
WaitReturnsReady(c) ==
  /\ pc[c] = "wait"
  /\ prepared = "Ready"
  /\ config' = [config EXCEPT ![c] = prepared]
  /\ Goto(c, "eom")
  /\ UNCHANGED <<prepared, fail_open, peer, msg, caps, result, sent, offered, allowed>>

\* prepared.wait(): blocks while Loading; Failed ends the thread unanswered.
WaitReturns(c) ==
  /\ pc[c] = "wait"
  /\ prepared # "Loading"
  /\ config' = [config EXCEPT ![c] = prepared]
  /\ Goto(c, IF prepared = "Ready" THEN "eom" ELSE "closed")
  /\ UNCHANGED <<prepared, fail_open, peer, msg, caps, result, sent, offered, allowed>>

\* emit_modifications and the CONTINUE after it: the next packet to write.
NextPacket(r, cap, s) ==
  IF r.modified /\ cap.chgbody /\ s.body < r.chunks THEN "replbody"
  ELSE IF cap.addhdrs /\ s.headers < r.audit THEN "addheader"
  ELSE "continue"

\* Variant of Respond that emits what it can and accepts.
RespondAlways(c, r) ==
  /\ result' = [result EXCEPT ![c] = r]
  /\ Goto(c, NextPacket(r, caps[c], NothingSent))

\* An Ok result: a changed body the MTA would not let us replace is deferred.
Respond(c, r) ==
  /\ result' = [result EXCEPT ![c] = r]
  /\ Goto(c, IF r.modified /\ ~caps[c].chgbody THEN "tempfail"
             ELSE NextPacket(r, caps[c], NothingSent))

\* An Err of clean_message, through clean_message_fail_open.
RespondError(c) ==
  \/ fail_open /\ \E r \in FailOpenResults : Respond(c, r)
  \/ ~fail_open /\ Goto(c, "tempfail") /\ UNCHANGED result

\* Variant of HandleEom without the over_limit check.
HandleEomUnchecked(c) ==
  /\ pc[c] = "eom"
  /\ \/ RespondError(c)
     \/ ~CleanMessageFails(msg[c]) /\ \E r \in CleanResults(msg[c]) : Respond(c, r)
  /\ UNCHANGED <<msg, sent, offered, EmitVars>>

\* handle_eom up to its first write.
HandleEom(c) ==
  /\ pc[c] = "eom"
  /\ \/ msg[c].over_limit /\ Goto(c, "tempfail") /\ UNCHANGED result
     \/ ~msg[c].over_limit /\ RespondError(c)
     \/ /\ ~msg[c].over_limit
        /\ ~CleanMessageFails(msg[c])
        /\ \E r \in CleanResults(msg[c]) : Respond(c, r)
  /\ UNCHANGED <<msg, sent, offered, EmitVars>>

\* One packet of emit_modifications.
WriteModification(c) ==
  /\ \/ pc[c] = "replbody" /\ sent' = [sent EXCEPT ![c].body = @ + 1]
     \/ pc[c] = "addheader" /\ sent' = [sent EXCEPT ![c].headers = @ + 1]
  /\ Goto(c, NextPacket(result[c], caps[c], sent'[c]))
  /\ UNCHANGED <<msg, result, offered, EmitVars>>

\* Variant of WriteVerdict that answers and keeps the message.
WriteVerdictKeep(c) ==
  /\ pc[c] \in {"continue", "tempfail"}
  /\ sent' = [sent EXCEPT ![c].verdict = pc[c]]
  /\ offered' = [offered EXCEPT ![c] = NothingOffered]
  /\ Goto(c, "read")
  /\ UNCHANGED <<msg, result, EmitVars>>

\* The last packet, and the reset after handle_eom.
WriteVerdict(c) ==
  /\ pc[c] \in {"continue", "tempfail"}
  /\ sent' = [sent EXCEPT ![c].verdict = pc[c]]
  /\ msg' = [msg EXCEPT ![c] = Reset(@)]
  /\ offered' = [offered EXCEPT ![c] = NothingOffered]
  /\ Goto(c, "read")
  /\ UNCHANGED <<result, EmitVars>>

\* Any write of the answer can fail once the peer is gone.
WriteFails(c) ==
  /\ pc[c] \in {"replbody", "addheader", "continue", "tempfail"}
  /\ peer[c] = "gone"
  /\ Goto(c, "closed")
  /\ UNCHANGED <<msg, result, sent, offered, EmitVars>>

Eom(c) ==
  WaitReturns(c) \/ HandleEom(c) \/ WriteModification(c) \/ WriteVerdict(c) \/ WriteFails(c)

Command(c) ==
  \/ ReadOptneg(c) \/ ReadMail(c) \/ ReadAbort(c) \/ ReadHeader(c) \/ ReadBody(c)
  \/ ReadOther(c) \/ ReadMacro(c) \/ ReadQuit(c) \/ ReadEob(c)

Next ==
  \/ Publish
  \/ \E c \in Conn : Accept(c) \/ Disconnect(c) \/ Command(c) \/ Eom(c)

(***************************************************************************)
(* Finalizing the rules ends (the loaders have byte limits and timeouts),  *)
(* a thread that can go on does, and an MTA that stays connected drains    *)
(* its socket.  Nothing obliges the MTA to send another command.           *)
(***************************************************************************)
Fairness == WF_vars(Publish) /\ \A c \in Conn : WF_vars(Eom(c))

Spec == Init /\ [][Next]_vars /\ Fairness

-----------------------------------------------------------------------------
(* Properties.                                                             *)

Points == {"idle", "read", "wait", "eom", "replbody", "addheader", "continue", "tempfail", "closed"}

Message == [headers : Seq(Header), body : Nat, bytes_seen : Nat, over_limit : BOOLEAN]

Result == [modified : BOOLEAN, chunks : Nat, audit : Nat]

\* The variables hold values of their types.
TypeOK ==
  /\ prepared \in {"Loading", "Ready", "Failed"}
  /\ fail_open \in BOOLEAN
  /\ peer \in [Conn -> {"up", "gone"}]
  /\ pc \in [Conn -> Points]
  /\ msg \in [Conn -> Message]
  /\ caps \in [Conn -> Actions]
  /\ config \in [Conn -> {"none", "Ready", "Failed"}]
  /\ result \in [Conn -> Result]
  /\ sent \in [Conn -> [body : Nat, headers : Nat, verdict : {"none", "continue", "tempfail"}]]
  /\ offered \in [Conn -> [headers : Seq(Header), body : Nat, bytes : Nat, items : Nat]]
  /\ allowed \in [Conn -> Actions]

Fits(o) == o.bytes + 2 <= MaxMessageSize

\* The message that would be cleaned is exactly what the MTA handed over since
\* the last boundary: nothing of an earlier message, nothing lost.  If the
\* whole does not fit, and only then, it has been marked, whatever the order
\* and sizes of the packets that crossed the limit.
ExactAccounting ==
  \A c \in Conn : LET m == msg[c] o == offered[c] IN
    IF m.over_limit THEN ~Fits(o)
    ELSE /\ m.headers = o.headers
         /\ m.body = o.body
         /\ m.bytes_seen = o.bytes
         /\ Fits(o) \/ o.bytes = 0

\* An oversized message is never let through, not even with fail_open, which
\* would pass it on as an "internal error" (mime.rs rejects it as well).
OversizeIsDeferred ==
  \A c \in Conn : pc[c] \in {"replbody", "addheader", "continue"} =>
    Fits(offered[c]) \/ offered[c].bytes = 0

\* The byte count kept while accumulating is the size of what reconstruct()
\* builds, so the limit of the milter and that of clean_message agree.
ReconstructedSize ==
  \A c \in Conn : ReconstructLen(msg[c]) = msg[c].bytes_seen + 2

\* No packet of an answer uses an action the MTA did not permit in its last
\* OPTNEG.
OnlyPermittedActions ==
  \A c \in Conn :
    /\ sent[c].body > 0 => allowed[c].chgbody
    /\ sent[c].headers > 0 => allowed[c].addhdrs

\* End-of-message is always concluded: by a verdict, or by the connection
\* closing when preparation failed or the MTA left.
EomConcludes == \A c \in Conn : pc[c] = "wait" ~> pc[c] \in {"read", "closed"}

\* A body that was changed is sent: no message is accepted with the cleaned
\* body left behind.
CleanedBodyIsSent ==
  \A c \in Conn : sent[c].verdict = "continue" /\ result[c].modified => sent[c].body > 0

\* The connection threads use the rules as RulePromise says.
Promise == INSTANCE RulePromise WITH
  Waiters <- Conn, state <- prepared, got <- config,
  asking <- [c \in Conn |-> pc[c] = "wait"]

ImplementsPromise == Promise!Spec

\* What became of the message by the packets the MTA was sent.  A modified
\* body of no chunks has no REPLBODY to go out in: nothing is replaced.
Told(s, r) ==
  IF s.verdict = "none" THEN "none"
  ELSE IF s.verdict = "tempfail" /\ s.body + s.headers = 0 THEN "deferred"
  ELSE IF s.verdict = "continue" /\ ~r.modified /\ s.body = 0 THEN "original"
  ELSE IF s.verdict = "continue" /\ r.modified /\ s.body = r.chunks
       THEN IF s.body > 0 THEN "cleaned" ELSE "emptied"
  ELSE "garbled"

Stage(point) ==
  IF point \in {"idle", "read"} THEN "receiving"
  ELSE IF point = "closed" THEN "gone"
  ELSE "deciding"

\* The conversation gives the MTA the verdicts of MailVerdict: no message is
\* accepted with its new body sent in part, sent unasked or held back for want
\* of permission, and the one acceptance that misleads is that of a body that
\* cleaning emptied.
Verdict == INSTANCE MailVerdict WITH
  rules <- prepared,
  stage <- [c \in Conn |-> Stage(pc[c])],
  outcome <- [c \in Conn |-> Told(sent[c], result[c])]

ImplementsVerdict == Verdict!Spec

=============================================================================
