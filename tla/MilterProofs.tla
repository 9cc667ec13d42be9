---------------------------- MODULE MilterProofs ----------------------------
(***************************************************************************)
(* Proofs about Milter for any set of connections, any size limit and any  *)
(* lengths: the types, that accumulation loses and leaks nothing, that an  *)
(* oversized message is deferred, that no answer uses an action the MTA    *)
(* did not permit, and that the conversation is one MailVerdict allows.    *)
(***************************************************************************)
EXTENDS Milter, TLAPS

Answering == {"replbody", "addheader", "continue"}

Offered == [headers : Seq(Header), body : Nat, bytes : Nat, items : Nat]

\* The accumulated message m is worth the message o the MTA handed over.
Worth(m, o) ==
  IF m.over_limit THEN ~Fits(o)
  ELSE /\ m.headers = o.headers
       /\ m.body = o.body
       /\ m.bytes_seen = o.bytes
       /\ Fits(o) \/ o.bytes = 0

Accounted(c) == Worth(msg[c], offered[c])

\* The capabilities in use are those of the MTA's last OPTNEG, and an answer
\* is only begun with what they permit, from a message within the limit.
Permitted(c) ==
  /\ caps[c] = allowed[c]
  /\ pc[c] \in Answering => ~msg[c].over_limit
  /\ pc[c] = "replbody" => caps[c].chgbody
  /\ pc[c] = "addheader" => caps[c].addhdrs
  /\ sent[c].body > 0 => allowed[c].chgbody
  /\ sent[c].headers > 0 => allowed[c].addhdrs

\* How far an answer has got: nothing is out before its first packet, a body
\* goes out only if modified and entirely before the headers, and there is no
\* verdict before the thread reads again.
Answered(c) ==
  LET s == sent[c] r == result[c] IN
    /\ pc[c] \in {"idle", "wait", "eom", "tempfail"} => s = NothingSent
    /\ pc[c] # "read" => s.verdict = "none"
    /\ pc[c] = "replbody" => r.modified /\ s.body < r.chunks
    /\ pc[c] \in {"addheader", "continue"} => s.body = IF r.modified THEN r.chunks ELSE 0

\* A message is answered with the rules, and with nothing else.
Ruled(c) == pc[c] \in {"eom", "tempfail"} \cup Answering => prepared = "Ready"

\* The inductive invariant.
IInv ==
  /\ TypeOK
  /\ \A c \in Conn : Accounted(c) /\ Permitted(c) /\ Answered(c) /\ Ruled(c)

-----------------------------------------------------------------------------
(* The message operators.                                                  *)

\* A header is charged a natural number of bytes.
LEMMA HeaderLenNat ==
  ASSUME NEW h \in Header
  PROVE  HeaderLen(h) \in Nat
<1>1. h.name \in Nat /\ h.value \in Nat
  BY SizesAreNaturals DEF Header
<1> QED
  BY <1>1 DEF HeaderLen

\* add_header keeps the type of the message.
LEMMA AddHeaderType ==
  ASSUME NEW m \in Message, NEW h \in Header
  PROVE  AddHeader(m, h) \in Message
<1>1. [m EXCEPT !.over_limit = TRUE] \in Message
  BY DEF Message
<1>2. [m EXCEPT !.bytes_seen = @ + HeaderLen(h), !.headers = Append(@, h)] \in Message
  <2>1. HeaderLen(h) \in Nat
    BY HeaderLenNat
  <2>2. m.bytes_seen + HeaderLen(h) \in Nat /\ Append(m.headers, h) \in Seq(Header)
    BY <2>1 DEF Message
  <2> QED
    BY <2>2 DEF Message
<1> QED
  BY <1>1, <1>2 DEF AddHeader

\* add_body keeps the type of the message.
LEMMA AddBodyType ==
  ASSUME NEW m \in Message, NEW len \in ChunkLens
  PROVE  AddBody(m, len) \in Message
<1>1. [m EXCEPT !.over_limit = TRUE] \in Message
  BY DEF Message
<1>2. [m EXCEPT !.bytes_seen = @ + len, !.body = @ + len] \in Message
  <2>1. m.bytes_seen + len \in Nat /\ m.body + len \in Nat
    BY SizesAreNaturals DEF Message
  <2> QED
    BY <2>1 DEF Message
<1> QED
  BY <1>1, <1>2 DEF AddBody

\* One more HEADER packet keeps the account right, whether it is added,
\* dropped or refused.
LEMMA AddHeaderAccounted ==
  ASSUME NEW m \in Message, NEW o \in Offered, NEW h \in Header, Worth(m, o)
  PROVE  Worth(AddHeader(m, h), OfferHeader(o, h))
<1> DEFINE n == OfferHeader(o, h)
<1>1. HeaderLen(h) \in Nat
  BY HeaderLenNat
<1>2. CASE h.name = 0
  BY <1>2 DEF AddHeader, OfferHeader, Worth, Fits, Offered
<1>3. CASE h.name # 0 /\ WouldExceed(m, HeaderLen(h))
  <2>1. AddHeader(m, h).over_limit
    BY <1>3 DEF AddHeader, Message
  <2>2. n.bytes = o.bytes + HeaderLen(h)
    BY <1>3 DEF OfferHeader
  <2>3. ~Fits(n)
    BY <1>1, <1>3, <2>2, SizesAreNaturals DEF WouldExceed, Worth, Fits, Message, Offered
  <2> QED
    BY <2>1, <2>3 DEF Worth
<1>4. CASE h.name # 0 /\ ~WouldExceed(m, HeaderLen(h))
  <2> DEFINE k == AddHeader(m, h)
  <2>1. k = [m EXCEPT !.bytes_seen = @ + HeaderLen(h), !.headers = Append(@, h)]
    BY <1>4 DEF AddHeader
  <2>2. /\ k.over_limit = FALSE /\ k.body = m.body
        /\ k.bytes_seen = m.bytes_seen + HeaderLen(h) /\ k.headers = Append(m.headers, h)
    BY <1>4, <2>1 DEF WouldExceed, Message
  <2>3. /\ n.headers = Append(o.headers, h) /\ n.body = o.body
        /\ n.bytes = o.bytes + HeaderLen(h)
    BY <1>4 DEF OfferHeader
  <2>4. Fits(n)
    BY <1>1, <1>4, <2>3, SizesAreNaturals DEF WouldExceed, Worth, Fits, Message, Offered
  <2> QED
    BY <1>4, <2>2, <2>3, <2>4 DEF Worth, WouldExceed
<1> QED
  BY <1>2, <1>3, <1>4

\* One more BODY packet keeps the account right, added or refused.
LEMMA AddBodyAccounted ==
  ASSUME NEW m \in Message, NEW o \in Offered, NEW len \in ChunkLens, Worth(m, o)
  PROVE  Worth(AddBody(m, len), OfferBody(o, len))
<1>1. CASE WouldExceed(m, len)
  <2>1. AddBody(m, len).over_limit
    BY <1>1 DEF AddBody, Message
  <2>2. ~Fits(OfferBody(o, len))
    BY <1>1, SizesAreNaturals DEF WouldExceed, Worth, Fits, OfferBody, Message, Offered
  <2> QED
    BY <2>1, <2>2 DEF Worth
<1>2. CASE ~WouldExceed(m, len)
  <2> DEFINE k == AddBody(m, len)
  <2>1. k = [m EXCEPT !.bytes_seen = @ + len, !.body = @ + len]
    BY <1>2 DEF AddBody
  <2>2. /\ k.over_limit = FALSE /\ k.headers = m.headers
        /\ k.bytes_seen = m.bytes_seen + len /\ k.body = m.body + len
    BY <1>2, <2>1 DEF WouldExceed, Message
  <2> QED
    BY <1>2, <2>2, SizesAreNaturals DEF WouldExceed, Worth, Fits, OfferBody, Message, Offered
<1> QED
  BY <1>1, <1>2

\* What the cleaner or the fail-open path returns is a Result, and has no new
\* body unless it is modified.
LEMMA AnswersAreResults ==
  /\ NoResult \in Result
  /\ \A r \in Unmodified \cup Modified : r \in Result /\ (r.modified \/ r.chunks = 0)
<1>1. ASSUME NEW k \in Nat, NEW n \in AuditHeaders, NEW b \in BOOLEAN
      PROVE  [modified |-> b, chunks |-> k, audit |-> n] \in Result
  BY SizesAreNaturals DEF Result
<1>2. ASSUME NEW r \in Unmodified PROVE r \in Result /\ r.chunks = 0
  <2>1. PICK n \in AuditHeaders : r = [modified |-> FALSE, chunks |-> 0, audit |-> n]
    BY DEF Unmodified, Answer
  <2> QED
    BY <1>1, <2>1
<1>3. ASSUME NEW r \in Modified PROVE r \in Result /\ r.modified
  <2>1. PICK k \in ReplyChunks, n \in AuditHeaders : r = [modified |-> TRUE, chunks |-> k, audit |-> n]
    BY DEF Modified, Answer
  <2> QED
    BY <1>1, <2>1, SizesAreNaturals
<1>4. NoResult \in Result
  BY DEF NoResult, Result
<1> QED
  BY <1>2, <1>3, <1>4

\* The empty message has its type, on either side.
LEMMA EmptyMessageType == EmptyMessage \in Message /\ NothingOffered \in Offered
  BY DEF EmptyMessage, Message, NothingOffered, Offered

-----------------------------------------------------------------------------
(* The initial states.                                                     *)

LEMMA InitIInv == Init => IInv
<1> SUFFICES ASSUME Init PROVE IInv
  OBVIOUS
<1>1. TypeOK
  BY EmptyMessageType, AnswersAreResults
  DEF Init, TypeOK, Points, Actions, AllActions, NothingSent, NothingOffered
<1>2. ASSUME NEW c \in Conn PROVE Accounted(c) /\ Permitted(c) /\ Answered(c) /\ Ruled(c)
  BY DEF Init, Accounted, Permitted, Answered, Ruled, Answering, EmptyMessage, NothingSent, NothingOffered, Worth
<1> QED
  BY <1>1, <1>2 DEF IInv

-----------------------------------------------------------------------------
(* The steps.                                                              *)

Good(c) == Accounted(c) /\ Permitted(c) /\ Answered(c) /\ Ruled(c)

\* Publication, acceptance and loss of a connection keep the invariant.
LEMMA OutsideKeepsIInv ==
  ASSUME IInv, Publish \/ \E c \in Conn : Accept(c) \/ Disconnect(c)
  PROVE  IInv'
<1>1. CASE Publish
  <2>1. TypeOK'
    BY <1>1 DEF IInv, TypeOK, Publish
  <2>2. ASSUME NEW d \in Conn PROVE Good(d)'
    BY <1>1 DEF IInv, Good, Publish, Accounted, Permitted, Answered, Ruled
  <2> QED
    BY <2>1, <2>2 DEF IInv, Good
<1>2. ASSUME NEW c \in Conn, Accept(c) PROVE IInv'
  <2>1. TypeOK'
    BY <1>2 DEF IInv, TypeOK, Accept, Goto, Points
  <2>2. ASSUME NEW d \in Conn PROVE Good(d)'
    BY <1>2 DEF IInv, TypeOK, Good, Accept, Goto, Accounted, Permitted, Answered, Ruled, Answering, NothingSent
  <2> QED
    BY <2>1, <2>2 DEF IInv, Good
<1>3. ASSUME NEW c \in Conn, Disconnect(c) PROVE IInv'
  <2>1. TypeOK'
    BY <1>3 DEF IInv, TypeOK, Disconnect
  <2>2. ASSUME NEW d \in Conn PROVE Good(d)'
    BY <1>3 DEF IInv, Good, Disconnect, Accounted, Permitted, Answered, Ruled
  <2> QED
    BY <2>1, <2>2 DEF IInv, Good
<1> QED
  BY <1>1, <1>2, <1>3

\* What Reading and where the thread goes next leave to show about a command:
\* only the message, the capabilities and the two histories can have changed.
LEMMA ReadingKeeps ==
  ASSUME IInv, NEW c \in Conn, Reading(c),
         NEW point \in {"read", "wait", "closed"}, Goto(c, point),
         msg' \in [Conn -> Message],
         caps' \in [Conn -> Actions],
         allowed' \in [Conn -> Actions],
         offered' \in [Conn -> Offered],
         \A d \in Conn \ {c} : /\ msg'[d] = msg[d] /\ offered'[d] = offered[d]
                               /\ caps'[d] = caps[d] /\ allowed'[d] = allowed[d],
         caps'[c] = allowed'[c],
         Accounted(c)'
  PROVE  IInv'
<1>1. TypeOK'
  BY AnswersAreResults DEF IInv, TypeOK, Reading, Goto, Points, NothingSent, Offered
<1>2. Good(c)'
  BY DEF IInv, TypeOK, Good, Reading, Goto, Permitted, Answered, Ruled, Answering, NothingSent
<1>3. ASSUME NEW d \in Conn \ {c} PROVE Good(d)'
  BY DEF IInv, TypeOK, Good, Reading, Goto, Accounted, Permitted, Answered, Ruled, Answering
<1> QED
  BY <1>1, <1>2, <1>3 DEF IInv, Good

\* A command keeps the invariant.
LEMMA CommandKeepsIInv ==
  ASSUME IInv, NEW c \in Conn, Command(c)
  PROVE  IInv'
<1>0. PICK point \in {"read", "wait", "closed"} : Reading(c) /\ Goto(c, point)
  <2>1. UNCHANGED pc /\ pc[c] = "read" => Goto(c, "read")
    BY DEF Goto, IInv, TypeOK
  <2> QED
    BY <2>1 DEF Command, ReadOptneg, ReadMail, ReadAbort, ReadHeader, ReadBody, ReadOther,
       ReadMacro, ReadQuit, ReadEob, Written, Reading
<1>1. CASE ReadOptneg(c)
  <2>1. PICK mta \in Actions : /\ caps' = [caps EXCEPT ![c] = mta]
                               /\ allowed' = [allowed EXCEPT ![c] = mta]
    BY <1>1 DEF ReadOptneg, Negotiated
  <2>2. UNCHANGED <<msg, offered>>
    BY <1>1 DEF ReadOptneg
  <2> QED
    BY <1>0, <2>1, <2>2, ReadingKeeps DEF IInv, TypeOK, Accounted, Offered
<1>2. CASE ReadMail(c) \/ ReadAbort(c)
  <2>1. /\ msg' = [msg EXCEPT ![c] = EmptyMessage]
        /\ offered' = [offered EXCEPT ![c] = NothingOffered]
        /\ UNCHANGED <<caps, allowed>>
    BY <1>2 DEF ReadMail, ReadAbort, Reset
  <2>2. msg' \in [Conn -> Message] /\ offered' \in [Conn -> Offered]
    BY <2>1, EmptyMessageType DEF IInv, TypeOK, Offered
  <2>3. Accounted(c)'
    BY <2>1 DEF IInv, TypeOK, Accounted, EmptyMessage, NothingOffered, Worth
  <2> QED
    BY <1>0, <2>1, <2>2, <2>3, ReadingKeeps DEF IInv, TypeOK, Permitted, Offered
<1>3. CASE ReadHeader(c)
  <2>1. PICK h \in Header :
          /\ msg' = [msg EXCEPT ![c] = AddHeader(@, h)]
          /\ offered' = [offered EXCEPT ![c] = OfferHeader(@, h)]
          /\ UNCHANGED <<caps, allowed>>
    BY <1>3 DEF ReadHeader
  <2>2. msg' \in [Conn -> Message] /\ msg'[c] = AddHeader(msg[c], h)
    BY <2>1, AddHeaderType DEF IInv, TypeOK
  <2>3. OfferHeader(offered[c], h) \in Offered
    <3>1. offered[c] \in Offered /\ HeaderLen(h) \in Nat
      BY HeaderLenNat DEF IInv, TypeOK, Offered
    <3>2. [offered[c] EXCEPT !.items = @ + 1] \in Offered
      BY <3>1 DEF Offered
    <3> QED
      BY <3>1, <3>2 DEF OfferHeader, Offered
  <2>4. offered' \in [Conn -> Offered] /\ offered'[c] = OfferHeader(offered[c], h)
    BY <2>1, <2>3 DEF IInv, TypeOK, Offered
  <2>5. Accounted(c)'
    BY <2>2, <2>4, AddHeaderAccounted DEF IInv, TypeOK, Accounted, Offered
  <2> QED
    BY <1>0, <2>1, <2>2, <2>4, <2>5, ReadingKeeps DEF IInv, TypeOK, Permitted, Offered
<1>4. CASE ReadBody(c)
  <2>1. PICK len \in ChunkLens :
          /\ msg' = [msg EXCEPT ![c] = AddBody(@, len)]
          /\ offered' = [offered EXCEPT ![c] = OfferBody(@, len)]
          /\ UNCHANGED <<caps, allowed>>
    BY <1>4 DEF ReadBody
  <2>2. msg' \in [Conn -> Message] /\ msg'[c] = AddBody(msg[c], len)
    BY <2>1, AddBodyType DEF IInv, TypeOK
  <2>3. OfferBody(offered[c], len) \in Offered
    BY SizesAreNaturals DEF IInv, TypeOK, OfferBody, Offered
  <2>4. offered' \in [Conn -> Offered] /\ offered'[c] = OfferBody(offered[c], len)
    BY <2>1, <2>3 DEF IInv, TypeOK, Offered
  <2>5. Accounted(c)'
    BY <2>2, <2>4, AddBodyAccounted DEF IInv, TypeOK, Accounted, Offered
  <2> QED
    BY <1>0, <2>1, <2>2, <2>4, <2>5, ReadingKeeps DEF IInv, TypeOK, Permitted, Offered
<1>5. CASE ReadOther(c) \/ ReadMacro(c) \/ ReadQuit(c) \/ ReadEob(c)
  <2>1. UNCHANGED <<msg, caps, offered, allowed>>
    BY <1>5 DEF ReadOther, ReadMacro, ReadQuit, ReadEob
  <2> QED
    BY <1>0, <2>1, ReadingKeeps DEF IInv, TypeOK, Accounted, Permitted, Offered
<1> QED
  BY <1>1, <1>2, <1>3, <1>4, <1>5 DEF Command

Sent == [body : Nat, headers : Nat, verdict : {"none", "continue", "tempfail"}]

\* The packet after s is one the capabilities permit, and the headers and the
\* CONTINUE only follow a complete body.
LEMMA NextPacketRight ==
  ASSUME NEW r \in Result, NEW cap \in Actions, NEW s \in Sent,
         IF r.modified THEN s.body <= r.chunks /\ (cap.chgbody \/ s.body = r.chunks)
         ELSE s.body = 0
  PROVE  LET p == NextPacket(r, cap, s) IN
           /\ p \in Answering
           /\ p = "replbody" => cap.chgbody /\ r.modified /\ s.body < r.chunks
           /\ p = "addheader" => cap.addhdrs
           /\ p \in {"addheader", "continue"} => s.body = IF r.modified THEN r.chunks ELSE 0
  BY DEF NextPacket, Answering, Result, Actions, Sent

\* The first packet of an answer, for any result of the cleaner.
LEMMA RespondKeeps ==
  ASSUME IInv, NEW c \in Conn, pc[c] = "eom", ~msg[c].over_limit,
         NEW r \in Result, r.modified \/ r.chunks = 0, Respond(c, r),
         UNCHANGED <<msg, sent, offered, EmitVars>>
  PROVE  IInv'
<1> DEFINE p == IF r.modified /\ ~caps[c].chgbody THEN "tempfail"
                ELSE NextPacket(r, caps[c], NothingSent)
<1>1. pc' = [pc EXCEPT ![c] = p] /\ result' = [result EXCEPT ![c] = r]
  BY DEF Respond, Goto
<1>2. sent[c] = NothingSent /\ NothingSent \in Sent /\ NothingSent.body = 0
  BY DEF IInv, Answered, NothingSent, Sent
<1>3. CASE r.modified /\ ~caps[c].chgbody
  <2>1. TypeOK'
    BY <1>1, <1>3 DEF IInv, TypeOK, EmitVars, Points
  <2>2. ASSUME NEW d \in Conn PROVE Good(d)'
    BY <1>1, <1>2, <1>3
    DEF IInv, TypeOK, EmitVars, Good, Accounted, Permitted, Answered, Ruled, Answering, NothingSent
  <2> QED
    BY <2>1, <2>2 DEF IInv, Good
<1>4. CASE ~(r.modified /\ ~caps[c].chgbody)
  <2>1. /\ p = NextPacket(r, caps[c], NothingSent)
        /\ p \in Answering
        /\ p = "replbody" => caps[c].chgbody /\ r.modified /\ 0 < r.chunks
        /\ p = "addheader" => caps[c].addhdrs
        /\ p \in {"addheader", "continue"} => 0 = IF r.modified THEN r.chunks ELSE 0
    <3>1. caps[c] \in Actions /\ r.chunks \in Nat
      BY DEF IInv, TypeOK, Result
    <3> QED
      BY <1>2, <1>4, <3>1, NextPacketRight
  <2> HIDE DEF p
  <2>2. TypeOK'
    BY <1>1, <2>1 DEF IInv, TypeOK, EmitVars, Points, Answering
  <2>3. ASSUME NEW d \in Conn PROVE Good(d)'
    <3>1. CASE d = c
      BY <1>1, <1>2, <2>1, <3>1
      DEF IInv, TypeOK, EmitVars, Good, Accounted, Permitted, Answered, Ruled, Answering, NothingSent
    <3>2. CASE d # c
      BY <1>1, <3>2
      DEF IInv, TypeOK, EmitVars, Good, Accounted, Permitted, Answered, Ruled
    <3> QED
      BY <3>1, <3>2
  <2> QED
    BY <2>2, <2>3 DEF IInv, Good
<1> QED
  BY <1>3, <1>4

\* Handling end-of-message keeps the invariant.
LEMMA EomKeepsIInv ==
  ASSUME IInv, NEW c \in Conn, Eom(c)
  PROVE  IInv'
<1>1. CASE WaitReturns(c)
  <2>1. TypeOK'
    BY <1>1 DEF IInv, TypeOK, WaitReturns, Goto, Points
  <2>2. ASSUME NEW d \in Conn PROVE Good(d)'
    BY <1>1
    DEF IInv, TypeOK, WaitReturns, Goto, Good, Accounted, Permitted, Answered, Ruled, Answering, NothingSent
  <2> QED
    BY <2>1, <2>2 DEF IInv, Good
<1>2. CASE HandleEom(c)
  <2>1. UNCHANGED <<msg, sent, offered, EmitVars>> /\ pc[c] = "eom"
    BY <1>2 DEF HandleEom
  <2>2. CASE Goto(c, "tempfail") /\ UNCHANGED result
    <3>1. TypeOK'
      BY <2>1, <2>2 DEF IInv, TypeOK, Goto, EmitVars, Points
    <3>2. ASSUME NEW d \in Conn PROVE Good(d)'
      BY <2>1, <2>2
      DEF IInv, TypeOK, Goto, EmitVars, Good, Accounted, Permitted, Answered, Ruled, Answering, NothingSent
    <3> QED
      BY <3>1, <3>2 DEF IInv, Good
  <2>3. CASE ~msg[c].over_limit /\ \E r \in Unmodified \cup Modified : Respond(c, r)
    <3>1. PICK r \in Unmodified \cup Modified : Respond(c, r)
      BY <2>3
    <3>2. r \in Result /\ (r.modified \/ r.chunks = 0)
      BY AnswersAreResults
    <3> QED
      BY <2>1, <2>3, <3>1, <3>2, RespondKeeps
  <2> QED
    BY <1>2, <2>2, <2>3 DEF HandleEom, RespondError, CleanResults, FailOpenResults
<1>3. CASE WriteModification(c)
  <2> DEFINE p == NextPacket(result[c], caps[c], sent'[c])
  <2>1. /\ pc' = [pc EXCEPT ![c] = p]
        /\ UNCHANGED <<msg, result, offered, EmitVars>>
        /\ pc[c] \in {"replbody", "addheader"}
    BY <1>3 DEF WriteModification, Goto
  <2>2. /\ sent' \in [Conn -> Sent]
        /\ sent'[c].verdict = "none"
        /\ \A d \in Conn \ {c} : sent'[d] = sent[d]
        /\ sent'[c].body > 0 => caps[c].chgbody
        /\ sent'[c].headers > 0 => caps[c].addhdrs
    <3>1. /\ sent \in [Conn -> Sent] /\ sent[c].body \in Nat /\ sent[c].headers \in Nat
          /\ sent[c].verdict = "none" /\ caps[c] = allowed[c]
          /\ sent[c].body > 0 => caps[c].chgbody
          /\ sent[c].headers > 0 => caps[c].addhdrs
      BY <2>1 DEF IInv, TypeOK, Permitted, Answered, Sent
    <3>2. CASE pc[c] = "replbody" /\ sent' = [sent EXCEPT ![c].body = @ + 1]
      <4>1. caps[c].chgbody
        BY <3>2 DEF IInv, Permitted
      <4>2. [sent[c] EXCEPT !.body = @ + 1] \in Sent
        BY <3>1 DEF Sent
      <4>3. sent'[c] = [sent[c] EXCEPT !.body = @ + 1]
        BY <3>1, <3>2
      <4>4. sent' \in [Conn -> Sent] /\ \A d \in Conn \ {c} : sent'[d] = sent[d]
        BY <3>1, <3>2, <4>2
      <4>5. sent'[c].verdict = "none" /\ sent'[c].headers = sent[c].headers
        BY <3>1, <4>3 DEF Sent
      <4> QED
        BY <3>1, <4>1, <4>4, <4>5
    <3>3. CASE pc[c] = "addheader" /\ sent' = [sent EXCEPT ![c].headers = @ + 1]
      <4>1. caps[c].addhdrs
        BY <3>3 DEF IInv, Permitted
      <4>2. [sent[c] EXCEPT !.headers = @ + 1] \in Sent
        BY <3>1 DEF Sent
      <4>3. sent'[c] = [sent[c] EXCEPT !.headers = @ + 1]
        BY <3>1, <3>3
      <4>4. sent' \in [Conn -> Sent] /\ \A d \in Conn \ {c} : sent'[d] = sent[d]
        BY <3>1, <3>3, <4>2
      <4>5. sent'[c].verdict = "none" /\ sent'[c].body = sent[c].body
        BY <3>1, <4>3 DEF Sent
      <4> QED
        BY <3>1, <4>1, <4>4, <4>5
    <3> QED
      BY <1>3, <3>2, <3>3 DEF WriteModification
  <2>3. IF result[c].modified
        THEN sent'[c].body <= result[c].chunks /\ (caps[c].chgbody \/ sent'[c].body = result[c].chunks)
        ELSE sent'[c].body = 0
    <3>1. sent[c].body \in Nat /\ result[c].chunks \in Nat /\ sent \in [Conn -> Sent]
      BY DEF IInv, TypeOK, Result, Sent
    <3>2. CASE pc[c] = "replbody"
      <4>1. result[c].modified /\ sent[c].body < result[c].chunks /\ caps[c].chgbody
        BY <3>2 DEF IInv, Permitted, Answered
      <4>2. sent'[c].body = sent[c].body + 1
        BY <1>3, <3>1, <3>2 DEF WriteModification, Sent
      <4> QED
        BY <3>1, <4>1, <4>2
    <3>3. CASE pc[c] = "addheader"
      <4>1. sent[c].body = IF result[c].modified THEN result[c].chunks ELSE 0
        BY <3>3 DEF IInv, Answered
      <4>2. sent'[c].body = sent[c].body
        BY <1>3, <3>1, <3>3 DEF WriteModification, Sent
      <4> QED
        BY <3>1, <4>1, <4>2
    <3> QED
      BY <2>1, <3>2, <3>3
  <2>4. /\ p \in Answering
        /\ p = "replbody" => caps[c].chgbody /\ result[c].modified /\ sent'[c].body < result[c].chunks
        /\ p = "addheader" => caps[c].addhdrs
        /\ p \in {"addheader", "continue"} =>
             sent'[c].body = IF result[c].modified THEN result[c].chunks ELSE 0
    <3>1. result[c] \in Result /\ caps[c] \in Actions /\ sent'[c] \in Sent
      BY <2>2 DEF IInv, TypeOK
    <3> QED
      BY <2>3, <3>1, NextPacketRight
  <2> HIDE DEF p
  <2>5. TypeOK'
    BY <2>1, <2>2, <2>4 DEF IInv, TypeOK, EmitVars, Points, Answering, Sent
  <2>6. ASSUME NEW d \in Conn PROVE Good(d)'
    <3>1. CASE d = c
      BY <2>1, <2>2, <2>4, <3>1
      DEF IInv, TypeOK, EmitVars, Good, Accounted, Permitted, Answered, Ruled, Answering
    <3>2. CASE d # c
      BY <2>1, <2>2, <3>2
      DEF IInv, TypeOK, EmitVars, Good, Accounted, Permitted, Answered, Ruled
    <3> QED
      BY <3>1, <3>2
  <2> QED
    BY <2>5, <2>6 DEF IInv, Good
<1>4. CASE WriteVerdict(c)
  <2>1. TypeOK'
    <3>1. msg' \in [Conn -> Message] /\ offered' \in [Conn -> Offered]
      BY <1>4, EmptyMessageType DEF IInv, TypeOK, WriteVerdict, Reset, Offered
    <3>2. pc' \in [Conn -> Points]
      BY <1>4 DEF IInv, TypeOK, WriteVerdict, Goto, Points
    <3>3. sent' \in [Conn -> Sent]
      BY <1>4 DEF IInv, TypeOK, WriteVerdict, Sent
    <3>4. UNCHANGED <<result, EmitVars>>
      BY <1>4 DEF WriteVerdict
    <3> QED
      BY <3>1, <3>2, <3>3, <3>4 DEF IInv, TypeOK, EmitVars, Offered, Sent
  <2>2. ASSUME NEW d \in Conn PROVE Good(d)'
    <3>1. CASE d = c
      BY <1>4, <3>1
      DEF IInv, TypeOK, WriteVerdict, Goto, EmitVars, Good, Accounted, Permitted, Answered, Ruled,
          Answering, Reset, EmptyMessage, NothingOffered, Worth
    <3>2. CASE d # c
      BY <1>4, <3>2
      DEF IInv, TypeOK, WriteVerdict, Goto, EmitVars, Good, Accounted, Permitted, Answered, Ruled
    <3> QED
      BY <3>1, <3>2
  <2> QED
    BY <2>1, <2>2 DEF IInv, Good
<1>5. CASE WriteFails(c)
  <2>1. TypeOK'
    BY <1>5 DEF IInv, TypeOK, WriteFails, Goto, EmitVars, Points
  <2>2. ASSUME NEW d \in Conn PROVE Good(d)'
    BY <1>5
    DEF IInv, TypeOK, WriteFails, Goto, EmitVars, Good, Accounted, Permitted, Answered, Ruled, Answering
  <2> QED
    BY <2>1, <2>2 DEF IInv, Good
<1> QED
  BY <1>1, <1>2, <1>3, <1>4, <1>5 DEF Eom


\* IInv holds in every reachable state.
LEMMA Invariance == Spec => []IInv
<1>1. IInv /\ [Next]_vars => IInv'
  <2> SUFFICES ASSUME IInv, [Next]_vars PROVE IInv'
    OBVIOUS
  <2>1. CASE UNCHANGED vars
    BY <2>1
    DEF IInv, TypeOK, Accounted, Permitted, Answered, Ruled, vars
  <2>2. CASE Next
    BY <2>2, OutsideKeepsIInv, CommandKeepsIInv, EomKeepsIInv DEF Next
  <2> QED
    BY <2>1, <2>2
<1> QED
  BY InitIInv, <1>1, PTL DEF Spec

-----------------------------------------------------------------------------
(* The theorems.                                                           *)

\* The variables always hold values of their types.
THEOREM TypeCorrect == Spec => []TypeOK
  BY Invariance, PTL DEF IInv

\* MessageState: what would be cleaned is what the MTA handed over since the
\* last MAIL, ABORT or verdict, or it is marked oversized, and rightly.
THEOREM Accounting == Spec => []ExactAccounting
<1>1. IInv => ExactAccounting
  BY DEF IInv, ExactAccounting, Accounted, Worth
<1> QED
  BY Invariance, <1>1, PTL

\* handle_eom: no message that exceeded the limit is answered with CONTINUE.
THEOREM OversizeDeferred == Spec => []OversizeIsDeferred
<1>1. IInv => OversizeIsDeferred
  BY DEF IInv, OversizeIsDeferred, Accounted, Worth, Permitted, Answering
<1> QED
  BY Invariance, <1>1, PTL

\* negotiate and emit_modifications: only permitted actions are used.
THEOREM PermittedOnly == Spec => []OnlyPermittedActions
<1>1. IInv => OnlyPermittedActions
  BY DEF IInv, OnlyPermittedActions, Permitted
<1> QED
  BY Invariance, <1>1, PTL

-----------------------------------------------------------------------------
(* The size of the message.                                                *)

\* Adding up the lengths of headers is a fold.
Lengths == INSTANCE SequenceFacts WITH Op <- LAMBDA n, h : n + HeaderLen(h)

HeadersLen(headers) == Lengths!Folded(0, headers)

\* What reconstruct() builds of m is as long as m was counted to be.
Sized(m) == ReconstructLen(m) = m.bytes_seen + 2

LEMMA ReconstructIs == \A m : ReconstructLen(m) = HeadersLen(m.headers) + 2 + m.body
<1>1. \A headers :
        FoldLeft(LAMBDA n, h : n + HeaderLen(h), 0, headers) = Lengths!Folded(0, headers)
  BY DEF FoldLeft, MapThenFoldSet, Max, Lengths!Folded, Lengths!Largest
<1> QED
  BY <1>1 DEF ReconstructLen, HeadersLen

\* Headers are as long as their lengths add up to, one by one.
LEMMA HeadersLenAppend ==
  ASSUME NEW headers \in Seq(Header), NEW h \in Header
  PROVE  HeadersLen(Append(headers, h)) = HeadersLen(headers) + HeaderLen(h)
BY Lengths!FoldAppend DEF HeadersLen

\* The length of any headers is a natural number.
LEMMA HeadersLenNat == HeadersLen(<<>>) = 0 /\ \A headers \in Seq(Header) : HeadersLen(headers) \in Nat
<1> DEFINE P == {headers \in Seq(Header) : HeadersLen(headers) \in Nat}
<1>1. HeadersLen(<<>>) = 0
  BY Lengths!FoldEmpty DEF HeadersLen
<1>2. <<>> \in P
  BY <1>1
<1>3. ASSUME NEW headers \in Seq(Header), NEW h \in Header, headers \in P
      PROVE  Append(headers, h) \in P
  BY <1>3, HeadersLenAppend, HeaderLenNat
<1> HIDE DEF P
<1>4. \A headers \in Seq(Header) : headers \in P
  BY <1>2, <1>3, Lengths!SeqInduction
<1> QED
  BY <1>1, <1>4 DEF P

\* The empty message is counted right, and so is a message after any packet.
LEMMA EmptySized == Sized(EmptyMessage)
  BY ReconstructIs, HeadersLenNat DEF Sized, EmptyMessage

LEMMA AddHeaderSized ==
  ASSUME NEW m \in Message, NEW h \in Header, Sized(m)
  PROVE  Sized(AddHeader(m, h))
<1>1. /\ HeadersLen(m.headers) \in Nat /\ HeaderLen(h) \in Nat
      /\ m.body \in Nat /\ m.bytes_seen \in Nat /\ m.headers \in Seq(Header)
  BY HeadersLenNat, HeaderLenNat DEF Message
<1>2. HeadersLen(Append(m.headers, h)) = HeadersLen(m.headers) + HeaderLen(h)
  BY <1>1, HeadersLenAppend
<1>3. Sized([m EXCEPT !.over_limit = TRUE])
  BY ReconstructIs DEF Sized, Message
<1>4. Sized([m EXCEPT !.bytes_seen = @ + HeaderLen(h), !.headers = Append(@, h)])
  <2> DEFINE k == [m EXCEPT !.bytes_seen = @ + HeaderLen(h), !.headers = Append(@, h)]
  <2>1. /\ k.headers = Append(m.headers, h) /\ k.body = m.body
        /\ k.bytes_seen = m.bytes_seen + HeaderLen(h)
    BY DEF Message
  <2>2. /\ ReconstructLen(k) = HeadersLen(k.headers) + 2 + k.body
        /\ ReconstructLen(m) = HeadersLen(m.headers) + 2 + m.body
    BY ReconstructIs
  <2> HIDE DEF k
  <2>3. ReconstructLen(m) = m.bytes_seen + 2
    BY DEF Sized
  <2>4. ReconstructLen(k) = HeadersLen(m.headers) + HeaderLen(h) + 2 + m.body
    BY <1>2, <2>1, <2>2
  <2>5. ReconstructLen(k) = k.bytes_seen + 2
    <3>1. \A w, x, y, z \in Nat : x + 2 + y = w + 2 => x + z + 2 + y = w + z + 2
      OBVIOUS
    <3>2. HeadersLen(m.headers) + 2 + m.body = m.bytes_seen + 2
      BY <2>2, <2>3
    <3>3. HeadersLen(m.headers) + HeaderLen(h) + 2 + m.body = m.bytes_seen + HeaderLen(h) + 2
      BY <1>1, <3>1, <3>2
    <3> QED
      BY <2>1, <2>4, <3>3
  <2>6. Sized(k)
    BY <2>5 DEF Sized
  <2> QED
    BY <2>6 DEF k
<1> QED
  BY <1>3, <1>4 DEF AddHeader

LEMMA AddBodySized ==
  ASSUME NEW m \in Message, NEW len \in ChunkLens, Sized(m)
  PROVE  Sized(AddBody(m, len))
<1>1. /\ HeadersLen(m.headers) \in Nat /\ len \in Nat
      /\ m.body \in Nat /\ m.bytes_seen \in Nat /\ m.headers \in Seq(Header)
  BY HeadersLenNat, SizesAreNaturals DEF Message
<1>2. Sized([m EXCEPT !.over_limit = TRUE])
  BY ReconstructIs DEF Sized, Message
<1>3. Sized([m EXCEPT !.bytes_seen = @ + len, !.body = @ + len])
  <2> DEFINE k == [m EXCEPT !.bytes_seen = @ + len, !.body = @ + len]
  <2>1. k.headers = m.headers /\ k.body = m.body + len /\ k.bytes_seen = m.bytes_seen + len
    BY DEF Message
  <2>2. /\ ReconstructLen(k) = HeadersLen(k.headers) + 2 + k.body
        /\ ReconstructLen(m) = HeadersLen(m.headers) + 2 + m.body
    BY ReconstructIs
  <2> HIDE DEF k
  <2>3. ReconstructLen(m) = m.bytes_seen + 2
    BY DEF Sized
  <2>4. ReconstructLen(k) = HeadersLen(m.headers) + 2 + (m.body + len)
    BY <2>1, <2>2
  <2>5. ReconstructLen(k) = k.bytes_seen + 2
    BY <1>1, <2>1, <2>2, <2>3, <2>4
  <2>6. Sized(k)
    BY <2>5 DEF Sized
  <2> QED
    BY <2>6 DEF k
<1> QED
  BY <1>2, <1>3 DEF AddBody

\* The size kept while a message comes in is that of what is cleaned, whatever
\* was sent, dropped or refused: reconstruct() can outgrow neither the limit
\* it was counted against nor the one clean_message checks again.
THEOREM SizeIsKept == Spec => []ReconstructedSize
<1>1. Init => ReconstructedSize
  BY EmptySized DEF Init, ReconstructedSize, Sized
<1>2. IInv /\ ReconstructedSize /\ [Next]_vars => ReconstructedSize'
  <2> SUFFICES ASSUME IInv, ReconstructedSize, [Next]_vars, NEW d \in Conn
               PROVE  Sized(msg'[d])
    BY DEF ReconstructedSize, Sized
  <2>1. msg \in [Conn -> Message] /\ Sized(msg[d])
    BY DEF IInv, TypeOK, ReconstructedSize, Sized
  <2>2. CASE msg'[d] = msg[d]
    BY <2>1, <2>2
  <2>3. CASE msg'[d] = EmptyMessage
    BY <2>3, EmptySized
  <2>4. CASE \E h \in Header : msg'[d] = AddHeader(msg[d], h)
    BY <2>1, <2>4, AddHeaderSized
  <2>5. CASE \E len \in ChunkLens : msg'[d] = AddBody(msg[d], len)
    BY <2>1, <2>5, AddBodySized
  <2>6. \/ msg'[d] = msg[d]
        \/ msg'[d] = EmptyMessage
        \/ \E h \in Header : msg'[d] = AddHeader(msg[d], h)
        \/ \E len \in ChunkLens : msg'[d] = AddBody(msg[d], len)
    <3>1. CASE UNCHANGED vars \/ Publish \/ \E c \in Conn : Accept(c) \/ Disconnect(c)
      BY <3>1 DEF vars, Publish, Accept, Disconnect
    <3>2. ASSUME NEW c \in Conn, Command(c)
          PROVE  \/ msg'[d] = msg[d]
                 \/ msg'[d] = EmptyMessage
                 \/ \E h \in Header : msg'[d] = AddHeader(msg[d], h)
                 \/ \E len \in ChunkLens : msg'[d] = AddBody(msg[d], len)
      BY <2>1, <3>2 DEF Command, ReadOptneg, ReadMail, ReadAbort, ReadHeader, ReadBody,
         ReadOther, ReadMacro, ReadQuit, ReadEob, Reset
    <3>3. ASSUME NEW c \in Conn, Eom(c)
          PROVE  msg'[d] = msg[d] \/ msg'[d] = EmptyMessage
      BY <2>1, <3>3 DEF Eom, WaitReturns, HandleEom, WriteModification, WriteVerdict, WriteFails,
         Reset
    <3> QED
      BY <3>1, <3>2, <3>3 DEF Next
  <2> QED
    BY <2>2, <2>3, <2>4, <2>5, <2>6
<1> QED
  BY Invariance, <1>1, <1>2, PTL DEF Spec

-----------------------------------------------------------------------------
(* The conversation implements MailVerdict.                                *)

stageBar   == [c \in Conn |-> Stage(pc[c])]
outcomeBar == [c \in Conn |-> Told(sent[c], result[c])]

\* A step of one connection moves that connection only, in the abstract too.
LEMMA OneConnection ==
  ASSUME NEW c \in Conn,
         \A d \in Conn \ {c} : pc'[d] = pc[d] /\ sent'[d] = sent[d] /\ result'[d] = result[d]
  PROVE  /\ stageBar' = [stageBar EXCEPT ![c] = Stage(pc'[c])]
         /\ outcomeBar' = [outcomeBar EXCEPT ![c] = Told(sent'[c], result'[c])]
  BY DEF stageBar, outcomeBar

\* The verdict written is one of those that MailVerdict has.
LEMMA VerdictIsTrue ==
  ASSUME IInv, NEW c \in Conn, WriteVerdict(c)
  PROVE  Told(sent'[c], result'[c]) \in {"original", "cleaned", "emptied", "deferred"}
<1>1. /\ result'[c] = result[c]
      /\ sent'[c] = [sent[c] EXCEPT !.verdict = pc[c]]
      /\ sent[c] \in Sent /\ result[c] \in Result
  BY DEF WriteVerdict, IInv, TypeOK, Sent
<1>2. sent'[c].verdict = pc[c] /\ sent'[c].body = sent[c].body /\ sent'[c].headers = sent[c].headers
  BY <1>1 DEF Sent
<1>3. CASE pc[c] = "tempfail"
  <2>1. sent[c].body = 0 /\ sent[c].headers = 0
    BY <1>3 DEF IInv, Answered, NothingSent
  <2> QED
    BY <1>2, <1>3, <2>1 DEF Told
<1>4. CASE pc[c] = "continue"
  <2>1. sent[c].body = IF result[c].modified THEN result[c].chunks ELSE 0
    BY <1>4 DEF IInv, Answered
  <2> QED
    BY <1>1, <1>2, <1>4, <2>1 DEF Told, Result
<1> QED
  BY <1>3, <1>4 DEF WriteVerdict

\* Every command is received, submits the message or drops the connection.
LEMMA CommandSimulates ==
  ASSUME IInv, NEW c \in Conn, Command(c)
  PROVE  Verdict!Next
<1>1. PICK point \in {"read", "wait", "closed"} : Reading(c) /\ Goto(c, point)
  <2>1. UNCHANGED pc /\ pc[c] = "read" => Goto(c, "read")
    BY DEF Goto, IInv, TypeOK
  <2> QED
    BY <2>1 DEF Command, ReadOptneg, ReadMail, ReadAbort, ReadHeader, ReadBody, ReadOther,
       ReadMacro, ReadQuit, ReadEob, Written, Reading
<1>2. /\ pc[c] = "read" /\ pc'[c] = point /\ sent'[c] = NothingSent
      /\ \A d \in Conn \ {c} : pc'[d] = pc[d] /\ sent'[d] = sent[d] /\ result'[d] = result[d]
      /\ UNCHANGED prepared
  BY <1>1 DEF Reading, Goto, IInv, TypeOK
<1>3. /\ stageBar' = [stageBar EXCEPT ![c] = Stage(point)]
      /\ outcomeBar' = [outcomeBar EXCEPT ![c] = "none"]
      /\ stageBar[c] = "receiving"
  <2>1. Told(sent'[c], result'[c]) = "none"
    BY <1>2 DEF Told, NothingSent
  <2> QED
    BY <1>2, <2>1, OneConnection DEF stageBar, Stage
<1>4. Verdict!Receive(c) \/ Verdict!Submit(c) \/ Verdict!Drop(c)
  <2>1. CASE point = "read"
    <3>1. stageBar' = stageBar
      BY <1>3, <2>1 DEF Stage, stageBar
    <3> QED
      BY <1>2, <1>3, <3>1 DEF Verdict!Receive, stageBar, outcomeBar
  <2>2. CASE point = "wait"
    BY <1>2, <1>3, <2>2 DEF Verdict!Submit, Stage, stageBar, outcomeBar
  <2>3. CASE point = "closed"
    BY <1>2, <1>3, <2>3 DEF Verdict!Drop, Stage, stageBar, outcomeBar
  <2> QED
    BY <2>1, <2>2, <2>3
<1> QED
  BY <1>4 DEF Verdict!Next

\* End of message stutters until a verdict resolves it or the connection drops.
LEMMA EomSimulates ==
  ASSUME IInv, NEW c \in Conn, Eom(c)
  PROVE  [Verdict!Next]_(Verdict!vars)
<1>1. /\ UNCHANGED prepared /\ stageBar[c] = "deciding"
      /\ \A d \in Conn \ {c} : pc'[d] = pc[d] /\ sent'[d] = sent[d] /\ result'[d] = result[d]
  BY DEF Eom, WaitReturns, HandleEom, RespondError, Respond, WriteModification, WriteVerdict,
     WriteFails, EmitVars, Goto, IInv, TypeOK, stageBar, Stage
<1>2. /\ stageBar' = [stageBar EXCEPT ![c] = Stage(pc'[c])]
      /\ outcomeBar' = [outcomeBar EXCEPT ![c] = Told(sent'[c], result'[c])]
      /\ outcomeBar[c] = "none"
  <2>1. Told(sent[c], result[c]) = "none"
    BY <1>1 DEF IInv, Answered, Told, stageBar, Stage
  <2> QED
    BY <1>1, <2>1, OneConnection DEF outcomeBar
<1>3. CASE sent'[c].verdict = "none" /\ Stage(pc'[c]) = "deciding"
  <2>1. Told(sent'[c], result'[c]) = "none"
    BY <1>3 DEF Told
  <2>2. stageBar' = stageBar /\ outcomeBar' = outcomeBar
    BY <1>1, <1>2, <1>3, <2>1 DEF stageBar, outcomeBar
  <2> QED
    BY <1>1, <2>2 DEF Verdict!vars, stageBar, outcomeBar
<1>4. CASE sent'[c].verdict = "none" /\ pc'[c] = "closed"
  <2>1. Told(sent'[c], result'[c]) = "none"
    BY <1>4 DEF Told
  <2>2. Verdict!Drop(c)
    BY <1>1, <1>2, <1>4, <2>1 DEF Verdict!Drop, Stage, stageBar, outcomeBar
  <2> QED
    BY <2>2 DEF Verdict!Next
<1>5. CASE WriteVerdict(c)
  <2>1. prepared = "Ready" /\ pc'[c] = "read"
    BY <1>5 DEF WriteVerdict, Goto, IInv, TypeOK, Ruled, Answering
  <2>2. Verdict!Resolve(c)
    BY <1>1, <1>2, <1>5, <2>1, VerdictIsTrue
    DEF Verdict!Resolve, Verdict!Verdicts, Stage, stageBar, outcomeBar
  <2> QED
    BY <2>2 DEF Verdict!Next
<1>6. CASE WaitReturns(c) \/ HandleEom(c) \/ WriteFails(c)
  <2>1. sent'[c].verdict = "none"
    BY <1>6 DEF WaitReturns, HandleEom, WriteFails, IInv, Answered
  <2>2. pc'[c] = "closed" \/ Stage(pc'[c]) = "deciding"
    BY <1>6 DEF WaitReturns, HandleEom, RespondError, Respond, WriteFails, NextPacket, Goto,
       IInv, TypeOK, Stage
  <2> QED
    BY <1>3, <1>4, <2>1, <2>2
<1>7. CASE WriteModification(c)
  <2>1. sent'[c].verdict = "none"
    <3>1. sent \in [Conn -> Sent] /\ sent[c] \in Sent /\ sent[c].verdict = "none"
      BY <1>7 DEF WriteModification, IInv, TypeOK, Answered, Sent
    <3>2. \/ sent'[c] = [sent[c] EXCEPT !.body = @ + 1]
          \/ sent'[c] = [sent[c] EXCEPT !.headers = @ + 1]
      BY <1>7, <3>1 DEF WriteModification
    <3> QED
      BY <3>1, <3>2 DEF Sent
  <2>2. Stage(pc'[c]) = "deciding"
    BY <1>7 DEF WriteModification, NextPacket, Goto, IInv, TypeOK, Stage
  <2> QED
    BY <1>3, <2>1, <2>2
<1> QED
  BY <1>5, <1>6, <1>7 DEF Eom

\* ImplementsVerdict without its fairness: every conversation is one that
\* MailVerdict allows.  No new body goes out in part or unasked, and none is
\* held back but the one that cleaning emptied.
THEOREM ImplementsVerdictSafety ==
  Spec => Verdict!Init /\ [][Verdict!Next]_(Verdict!vars)
<1>1. Init => Verdict!Init
  BY DEF Init, Verdict!Init, Stage, Told, NothingSent
<1>2. IInv /\ [Next]_vars => [Verdict!Next]_(Verdict!vars)
  <2> SUFFICES ASSUME IInv, [Next]_vars PROVE [Verdict!Next]_(Verdict!vars)
    OBVIOUS
  <2>1. CASE UNCHANGED vars
    BY <2>1 DEF vars, Verdict!vars
  <2>2. CASE Publish
    BY <2>2 DEF Publish, Verdict!Next, Verdict!DecideRules
  <2>3. ASSUME NEW c \in Conn, Accept(c) \/ Disconnect(c) PROVE UNCHANGED Verdict!vars
    <3>1. \A d \in Conn : Stage(pc'[d]) = Stage(pc[d])
      BY <2>3 DEF Accept, Disconnect, Goto, Stage, IInv, TypeOK
    <3>2. UNCHANGED <<prepared, sent, result>>
      BY <2>3 DEF Accept, Disconnect
    <3> QED
      BY <3>1, <3>2 DEF Verdict!vars
  <2> QED
    BY <2>1, <2>2, <2>3, CommandSimulates, EomSimulates DEF Next
<1> QED
  BY Invariance, <1>1, <1>2, PTL DEF Spec

=============================================================================
