---------------------- MODULE BlockAckHandshakeProofs ----------------------
(* Theorems about the handshake, for any number of requests, retries and     *)
(* timers and any loss: neither end's window starts beyond an MPDU still to  *)
(* be sent, and an acknowledged response finds its pending agreement.        *)
EXTENDS BlockAckHandshake, SequenceTheorems, TLAPS

Originators ==
    [state : {"none", "PENDING", "ESTABLISHED", "NO_REPLY", "RESET"}, start : Nat,
     timer : BOOLEAN, blocked : BOOLEAN, responses : Nat, resets : Nat, orphans : Nat,
     disturbed : BOOLEAN]

Recipients == [pending : SUBSET Nat, established : SUBSET Nat, abandoned : BOOLEAN]

ActionFrame == [type : {"ADDBA_REQUEST", "ADDBA_RESPONSE", "DELBA"}, start : Nat,
                tries : Nat, delivered : BOOLEAN, expired : BOOLEAN]

\* What the originator sends when no request asks for a start beyond n, and
\* what the recipient sends.
Asked(n) == {f \in ActionFrame : /\ f.type # "ADDBA_RESPONSE"
                                 /\ f.type = "ADDBA_REQUEST" => f.start <= n}
Answer == {f \in ActionFrame : f.type = "ADDBA_RESPONSE"}

\* What the originator still has to send is at least this: under an agreement
\* an MPDU may come back to be retried that is older than the first of now.
Floor(o) == IF o.state = "ESTABLISHED" THEN o.start ELSE FirstSeq

DataInv ==
    /\ data \in [next : Nat, retry : SUBSET Nat]
    /\ data.retry = {} \/ \E n \in Nat : n < data.next /\ data.retry = {n}

OriginatorInv == originator \in Originators /\ DataInv /\ Floor(originator) <= FirstSeq

\* No start that the recipient knows or will hear of is beyond that.
StartsInv ==
    /\ recipient \in Recipients
    /\ recipient.pending \subseteq 0 .. Floor(originator)
    /\ recipient.established \subseteq 0 .. Floor(originator)
    /\ queue["originator"] \in Seq(Asked(Floor(originator)))

\* There is at most one response, and the agreement it is about.
AnswersInv ==
    /\ queue["recipient"] \in Seq(Answer) /\ Len(queue["recipient"]) <= 1
    /\ queue["recipient"] # <<>> => recipient.pending # {}

\* What is on the air is the head of a queue.
AirInv ==
    /\ queue \in [Sides -> Seq(ActionFrame)]
    /\ exchange \in [sender : Sides \cup {"none"}, heard : BOOLEAN]
    /\ exchange.heard => exchange.sender # "none"
    /\ exchange.sender # "none" => queue[exchange.sender] # <<>>

IInv == OriginatorInv /\ StartsInv /\ AnswersInv /\ AirInv

-----------------------------------------------------------------------------
LEMMA MinOfOne == ASSUME NEW n \in Nat PROVE Min({n}) = n
  BY DEF Min

LEMMA MaxOfTwo ==
  ASSUME NEW m \in Nat, NEW n \in Nat
  PROVE  Max({m, n}) = IF m >= n THEN m ELSE n
  <1>1. \A x \in {m, n} : (\A y \in {m, n} : x >= y) => x = IF m >= n THEN m ELSE n
    OBVIOUS
  <1>2. \E x \in {m, n} : \A y \in {m, n} : x >= y
    OBVIOUS
  <1> QED
    BY <1>1, <1>2 DEF Max

\* The first sequence number of any data.
LEMMA FirstOf ==
  ASSUME NEW d, d.next \in Nat,
         d.retry = {} \/ \E n \in Nat : n < d.next /\ d.retry = {n},
         NEW first, first = IF d.retry = {} THEN d.next ELSE Min(d.retry)
  PROVE  /\ first \in Nat /\ first <= d.next
         /\ d.retry = {} => first = d.next
         /\ d.retry # {} => d.retry = {first}
  <1>1. CASE d.retry = {}
    BY <1>1
  <1>2. CASE d.retry # {}
    <2>1. PICK n \in Nat : n < d.next /\ d.retry = {n}
      BY <1>2
    <2>2. first = n
      BY <1>2, <2>1, MinOfOne
    <2> QED
      BY <1>2, <2>1, <2>2
  <1> QED
    BY <1>1, <1>2

LEMMA FirstSeqValue ==
  ASSUME DataInv
  PROVE  /\ data.next \in Nat /\ FirstSeq \in Nat /\ FirstSeq <= data.next
         /\ data.retry = {} => FirstSeq = data.next
         /\ data.retry # {} => data.retry = {FirstSeq}
  BY FirstOf DEF DataInv, FirstSeq

\* What an action does to sequences of frames keeps them in Seq(F).
LEMMA QueueOperations ==
  ASSUME NEW F, NEW q \in Seq(F), q # <<>>
  PROVE  /\ Len(q) \in Nat \ {0} /\ DOMAIN q = 1 .. Len(q)
         /\ \A i \in DOMAIN q : q[i] \in F
         /\ Head(q) = q[1] /\ q[1] \in F
         /\ Tail(q) \in Seq(F) /\ Len(Tail(q)) = Len(q) - 1
         /\ \A f \in F : LET p == [q EXCEPT ![1] = f]
                        IN  p \in Seq(F) /\ Len(p) = Len(q) /\ p # <<>>
         /\ \A i \in DOMAIN q : LET p == RemoveAt(q, i)
                               IN  /\ p \in Seq(F) /\ Len(p) = Len(q) - 1
                                   /\ i # 1 => p # <<>>
  <1>1. Len(q) \in Nat \ {0} /\ DOMAIN q = 1 .. Len(q) /\ \A i \in DOMAIN q : q[i] \in F
    BY EmptySeq, LenProperties, ElementOfSeq
  <1>2. Head(q) = q[1] /\ Tail(q) \in Seq(F) /\ Len(Tail(q)) = Len(q) - 1
    BY HeadTailProperties
  <1>3. ASSUME NEW f \in F
        PROVE  LET p == [q EXCEPT ![1] = f] IN p \in Seq(F) /\ Len(p) = Len(q) /\ p # <<>>
    <2>1. [q EXCEPT ![1] = f] \in Seq(F) /\ Len([q EXCEPT ![1] = f]) = Len(q)
      BY <1>1, ExceptSeq
    <2> QED
      BY <1>1, <2>1, EmptySeq
  <1>4. ASSUME NEW i \in DOMAIN q
        PROVE  LET p == RemoveAt(q, i)
               IN  p \in Seq(F) /\ Len(p) = Len(q) - 1 /\ (i # 1 => p # <<>>)
    <2> DEFINE before == SubSeq(q, 1, i - 1)
               after == SubSeq(q, i + 1, Len(q))
    <2>1. before \in Seq(F) /\ Len(before) = i - 1
      <3>1. before \in Seq(F) /\ Len(before) = IF 1 <= i - 1 THEN (i - 1) - 1 + 1 ELSE 0
        BY <1>1, SubSeqProperties
      <3> QED
        BY <1>1, <3>1
    <2>2. after \in Seq(F) /\ Len(after) = Len(q) - i
      <3>1. /\ after \in Seq(F)
            /\ Len(after) = IF i + 1 <= Len(q) THEN Len(q) - (i + 1) + 1 ELSE 0
        BY <1>1, SubSeqProperties
      <3> QED
        BY <1>1, <3>1
    <2> HIDE DEF before, after
    <2>3. before \o after \in Seq(F) /\ Len(before \o after) = Len(before) + Len(after)
      BY <2>1, <2>2, ConcatProperties
    <2>4. Len(before \o after) = Len(q) - 1 /\ (i # 1 => before \o after # <<>>)
      BY <1>1, <2>1, <2>2, <2>3, EmptySeq
    <2>5. RemoveAt(q, i) = before \o after
      BY DEF RemoveAt, before, after
    <2> QED
      BY <2>3, <2>4, <2>5
  <1>5. q[1] \in F
    BY <1>1
  <1> QED
    BY <1>1, <1>2, <1>3, <1>4, <1>5

-----------------------------------------------------------------------------
\* An originator after a step: an agreement it has it had before, or it begins
\* with the first MPDU.
Later(p) ==
    /\ p \in Originators
    /\ p.state = "ESTABLISHED" =>
          p.start = FirstSeq \/ (originator.state = "ESTABLISHED" /\ p.start = originator.start)

LEMMA OriginatorStep ==
  ASSUME OriginatorInv, UNCHANGED data, Later(originator')
  PROVE  /\ OriginatorInv'
         /\ Floor(originator) \in Nat /\ Floor(originator)' \in Nat
         /\ Floor(originator) <= Floor(originator)'
  <1>1. FirstSeq \in Nat /\ FirstSeq' = FirstSeq /\ DataInv'
    BY FirstSeqValue DEF OriginatorInv, FirstSeq, DataInv
  <1>2. Floor(originator) \in Nat /\ Floor(originator) <= FirstSeq
    BY <1>1 DEF OriginatorInv, Originators, Floor
  <1>3. /\ Floor(originator)' \in Nat /\ Floor(originator)' <= FirstSeq
        /\ Floor(originator) <= Floor(originator)'
    BY <1>1, <1>2 DEF Later, Originators, Floor
  <1> QED
    BY <1>1, <1>2, <1>3 DEF OriginatorInv, Later

LEMMA AskedGrows ==
  ASSUME NEW m \in Nat, NEW n \in Nat, m <= n, NEW q \in Seq(Asked(m))
  PROVE  q \in Seq(Asked(n))
  <1>1. Asked(m) \subseteq Asked(n)
    BY DEF Asked, ActionFrame
  <1> QED
    BY <1>1, SeqMonotonic

LEMMA StartsStep ==
  ASSUME OriginatorInv, UNCHANGED data, Later(originator'), recipient' \in Recipients,
         recipient'.pending \subseteq 0 .. Floor(originator),
         recipient'.established \subseteq 0 .. Floor(originator),
         queue'["originator"] \in Seq(Asked(Floor(originator)))
  PROVE  OriginatorInv' /\ StartsInv'
  <1>1. /\ OriginatorInv'
        /\ Floor(originator) \in Nat /\ Floor(originator)' \in Nat
        /\ Floor(originator) <= Floor(originator)'
    BY OriginatorStep
  <1>2. queue'["originator"] \in Seq(Asked(Floor(originator)'))
    BY <1>1, AskedGrows
  <1>3. Asked(Floor(originator))' = Asked(Floor(originator)')
    BY DEF Asked
  <1>4. 0 .. Floor(originator) \subseteq 0 .. Floor(originator)'
    BY <1>1
  <1> QED
    BY <1>1, <1>2, <1>3, <1>4 DEF StartsInv

LEMMA OriginatorOperations ==
  ASSUME OriginatorInv
  PROVE  /\ Later(originator)
         /\ Later(Create(originator, FirstSeq))
         /\ Later(Destroy(originator))
         /\ Later(NoReply(originator))
         /\ Later(GotAddBaResponse(originator))
         /\ \A f \in ActionFrame : /\ Later(ForgetsRequest(originator, f))
                                   /\ Later(WithAckedFrame(originator, f.type))
  <1>1. FirstSeq \in Nat /\ originator \in Originators
    BY FirstSeqValue DEF OriginatorInv
  <1>2. Later(originator) /\ Later(Create(originator, FirstSeq))
    BY <1>1 DEF Later, Originators, Create
  <1>3. Later(Destroy(originator))
    BY <1>1 DEF Later, Originators, Destroy
  <1>4. Later(NoReply(originator))
    <2>1. CASE originator.state # "PENDING"
      BY <1>2, <2>1 DEF NoReply
    <2>2. CASE originator.state = "PENDING"
      <3> DEFINE o == [originator EXCEPT !.state = "NO_REPLY", !.blocked = FALSE,
                                         !.resets = @ + 1]
      <3>1. originator.resets + 1 \in Nat
        BY <1>1 DEF Originators
      <3>2. o \in Originators /\ o.state = "NO_REPLY"
        BY <1>1, <3>1 DEF Originators
      <3>3. NoReply(originator) = o
        BY <2>2 DEF NoReply
      <3> QED
        BY <3>2, <3>3 DEF Later
    <2> QED
      BY <2>1, <2>2
  <1>5. Later(GotAddBaResponse(originator))
    <2>1. CASE originator.state = "none"
      BY <1>1, <2>1 DEF Later, Originators, GotAddBaResponse
    <2>2. CASE originator.state # "none"
      <3> DEFINE o == GotAddBaResponse(originator)
      <3>1. /\ (IF originator.timer THEN originator.orphans + 1 ELSE originator.orphans) \in Nat
            /\ InactivityTimeout \in BOOLEAN
        BY <1>1, HandshakeAssumption DEF HandshakeAssumption, Originators
      <3>2. o \in Originators /\ o.start = FirstSeq
        BY <1>1, <2>2, <3>1 DEF Originators, GotAddBaResponse
      <3> QED
        BY <3>2 DEF Later
    <2> QED
      BY <2>1, <2>2
  <1>6. ASSUME NEW f \in ActionFrame
        PROVE  Later(ForgetsRequest(originator, f)) /\ Later(WithAckedFrame(originator, f.type))
    <2>1. Later(ForgetsRequest(originator, f))
      BY <1>1 DEF Later, Originators, ForgetsRequest, ActionFrame
    <2>2. Later(WithAckedFrame(originator, f.type))
      BY <1>1, <1>3 DEF Later, Originators, WithAckedFrame
    <2> QED
      BY <2>1, <2>2
  <1> QED
    BY <1>2, <1>3, <1>4, <1>5, <1>6

-----------------------------------------------------------------------------
LEMMA QueueTypes ==
  ASSUME IInv
  PROVE  /\ Floor(originator) \in Nat
         /\ \A n \in Nat : Asked(n) \subseteq ActionFrame
         /\ queue["originator"] \in Seq(Asked(Floor(originator)))
         /\ queue["recipient"] \in Seq(Answer)
         /\ \A side \in Sides : queue[side] \in Seq(ActionFrame)
         /\ queue \in [Sides -> Seq(ActionFrame)]
         /\ "originator" \in Sides /\ "recipient" \in Sides
  <1>1. Floor(originator) \in Nat
    BY FirstSeqValue DEF IInv, OriginatorInv, Originators, Floor
  <1> QED
    BY <1>1 DEF IInv, StartsInv, AnswersInv, AirInv, Asked, Sides

\* A frame added to what the originator has to send.
LEMMA AskStep ==
  ASSUME IInv, NEW f \in Asked(Floor(originator))
  PROVE  /\ Append(queue["originator"], f) \in Seq(Asked(Floor(originator)))
         /\ Append(queue["originator"], f) \in Seq(ActionFrame)
         /\ Append(queue["originator"], f) # <<>>
         /\ <<f>> \in Seq(Asked(Floor(originator))) /\ <<f>> \in Seq(ActionFrame)
  <1>1. /\ queue["originator"] \in Seq(Asked(Floor(originator)))
        /\ Asked(Floor(originator)) \subseteq ActionFrame
    BY QueueTypes
  <1>2. /\ Append(queue["originator"], f) \in Seq(Asked(Floor(originator)))
        /\ Append(queue["originator"], f) # <<>>
    BY <1>1, AppendProperties
  <1> QED
    BY <1>1, <1>2, SeqMonotonic

LEMMA RequestStep == IInv /\ SendAddBaRequest => IInv'
  <1> SUFFICES ASSUME IInv, SendAddBaRequest PROVE IInv'
    OBVIOUS
  <1> DEFINE f == Frame("ADDBA_REQUEST", FirstSeq)
  <1>1. Floor(originator) = FirstSeq /\ FirstSeq \in Nat
    BY FirstSeqValue DEF SendAddBaRequest, Floor, IInv, OriginatorInv
  <1>2. f \in Asked(Floor(originator))
    BY <1>1 DEF Frame, Asked, ActionFrame
  <1>3. <<f>> \in Seq(Asked(Floor(originator))) /\ <<f>> \in Seq(ActionFrame) /\ <<f>> # <<>>
    BY <1>2, AskStep
  <1> HIDE DEF f
  <1>4. /\ queue'["originator"] = <<f>> /\ queue'["recipient"] = queue["recipient"]
        /\ queue' \in [Sides -> Seq(ActionFrame)]
    BY <1>3, QueueTypes DEF SendAddBaRequest, f
  <1>5. OriginatorInv' /\ StartsInv'
    <2>1. Later(originator')
      BY OriginatorOperations DEF IInv, SendAddBaRequest
    <2> QED
      BY <1>3, <1>4, <2>1, StartsStep DEF IInv, SendAddBaRequest, StartsInv
  <1>6. AnswersInv'
    BY <1>4 DEF IInv, AnswersInv, SendAddBaRequest
  <1>7. AirInv'
    BY <1>3, <1>4 DEF AirInv, SendAddBaRequest, Sides
  <1> QED
    BY <1>5, <1>6, <1>7 DEF IInv

\* Nothing changes but data, of which what is left is not before the floor.
LEMMA DataStep ==
  ASSUME IInv, UNCHANGED <<originator, recipient, queue, exchange>>, DataInv',
         Floor(originator) <= FirstSeq',
         originator.state # "ESTABLISHED" => FirstSeq <= FirstSeq'
  PROVE  IInv'
  <1>1. originator \in Originators /\ FirstSeq' \in Nat /\ FirstSeq \in Nat
    BY FirstOf, FirstSeqValue DEF IInv, OriginatorInv, DataInv, FirstSeq
  <1>2. /\ Floor(originator) \in Nat /\ Floor(originator)' \in Nat
        /\ Floor(originator) <= Floor(originator)' /\ Floor(originator)' <= FirstSeq'
    BY <1>1 DEF Floor, Originators
  <1>3. OriginatorInv'
    BY <1>1, <1>2 DEF OriginatorInv
  <1>4. StartsInv'
    <2>1. 0 .. Floor(originator) \subseteq 0 .. Floor(originator)'
      BY <1>2
    <2>2. queue["originator"] \in Seq(Asked(Floor(originator)'))
      BY <1>2, AskedGrows DEF IInv, StartsInv
    <2>3. Asked(Floor(originator))' = Asked(Floor(originator)')
      BY DEF Asked
    <2> QED
      BY <2>1, <2>2, <2>3 DEF IInv, StartsInv
  <1>5. AnswersInv' /\ AirInv'
    BY DEF IInv, AnswersInv, AirInv
  <1> QED
    BY <1>3, <1>4, <1>5 DEF IInv

LEMMA NormalStep == IInv /\ SendNormal => IInv'
  <1> SUFFICES ASSUME IInv, SendNormal PROVE IInv'
    OBVIOUS
  <1>1. /\ FirstSeq \in Nat /\ data.next \in Nat
        /\ Floor(originator) = FirstSeq
    BY FirstSeqValue DEF IInv, OriginatorInv, SendNormal, Floor
  <1>2. PICK left \in {{}, {FirstSeq}} : data' = [next |-> Max({FirstSeq + 1, data.next}), retry |-> left]
    BY DEF SendNormal
  <1>3. data'.next \in Nat /\ FirstSeq < data'.next /\ data'.retry = left
    BY <1>1, <1>2, MaxOfTwo
  <1>4. DataInv'
    BY <1>1, <1>2, <1>3 DEF DataInv
  <1>5. FirstSeq <= FirstSeq'
    BY <1>1, <1>3, MinOfOne DEF FirstSeq
  <1> QED
    BY <1>1, <1>4, <1>5, DataStep DEF SendNormal

LEMMA AgreementStep == IInv /\ SendUnderAgreement => IInv'
  <1> SUFFICES ASSUME IInv, SendUnderAgreement PROVE IInv'
    OBVIOUS
  <1>1. /\ FirstSeq \in Nat /\ data.next \in Nat /\ FirstSeq <= data.next
        /\ originator.start \in Nat /\ originator.start <= FirstSeq
        /\ Floor(originator) = originator.start
    BY FirstSeqValue DEF IInv, OriginatorInv, Originators, SendUnderAgreement, Floor
  <1>2. PICK sent \in 0 .. 1, left \in {{}} \cup {{n} : n \in originator.start .. data.next} :
            /\ \A n \in left : n < data.next + sent
            /\ data' = [next |-> data.next + sent, retry |-> left]
    BY DEF SendUnderAgreement
  <1>3. data'.next \in Nat /\ data.next <= data'.next /\ data'.retry = left
    BY <1>1, <1>2
  <1>4. DataInv' /\ originator.start <= FirstSeq'
    <2>1. CASE left = {}
      BY <1>1, <1>2, <1>3, <2>1 DEF DataInv, FirstSeq
    <2>2. ASSUME NEW n \in originator.start .. data.next, left = {n}
          PROVE  DataInv' /\ originator.start <= FirstSeq'
      <3>1. n \in Nat /\ n < data'.next /\ originator.start <= n
        BY <1>1, <1>2, <2>2
      <3>2. FirstSeq' = n
        BY <1>3, <2>2, <3>1, MinOfOne DEF FirstSeq
      <3> QED
        BY <1>2, <1>3, <2>2, <3>1, <3>2 DEF DataInv
    <2> QED
      BY <1>2, <2>1, <2>2
  <1> QED
    BY <1>1, <1>4, DataStep DEF SendUnderAgreement

-----------------------------------------------------------------------------
\* The frames a side sends.
Sent(side) == IF side = "originator" THEN Asked(Floor(originator)) ELSE Answer

LEMMA SentFrames ==
  ASSUME IInv, NEW side \in Sides, NEW f \in Sent(side)
  PROVE  /\ f \in ActionFrame
         /\ [f EXCEPT !.delivered = TRUE] \in Sent(side)
         /\ [f EXCEPT !.tries = @ + 1] \in Sent(side)
         /\ [f EXCEPT !.expired = TRUE] \in Sent(side)
  <1>1. f \in ActionFrame /\ f.tries + 1 \in Nat
    BY DEF Sent, Asked, Answer, ActionFrame
  <1>2. CASE side = "originator"
    BY <1>1, <1>2 DEF Sent, Asked, ActionFrame
  <1>3. CASE side # "originator"
    BY <1>1, <1>3 DEF Sent, Answer, ActionFrame
  <1> QED
    BY <1>1, <1>2, <1>3

LEMMA SentQueues ==
  ASSUME IInv, NEW side \in Sides
  PROVE  /\ queue[side] \in Seq(Sent(side))
         /\ \A q \in Seq(Sent(side)) : q \in Seq(ActionFrame)
  <1>1. queue[side] \in Seq(Sent(side))
    BY QueueTypes DEF Sent, Sides
  <1>2. Sent(side) \subseteq ActionFrame
    BY SentFrames
  <1> QED
    BY <1>1, <1>2, SeqMonotonic

\* What the actions without data have in common: queues with what each side
\* sends, and an originator and a recipient that know of no new start.
LEMMA FrameStep ==
  ASSUME IInv, UNCHANGED data, Later(originator'), recipient' \in Recipients,
         recipient'.pending \subseteq 0 .. Floor(originator),
         recipient'.established \subseteq 0 .. Floor(originator),
         NEW asked \in Seq(Sent("originator")), NEW answers \in Seq(Sent("recipient")),
         queue' = [queue EXCEPT !["originator"] = asked, !["recipient"] = answers],
         Len(answers) <= 1,
         answers # <<>> => recipient'.pending # {},
         exchange' \in [sender : Sides \cup {"none"}, heard : BOOLEAN],
         exchange'.heard => exchange'.sender # "none",
         exchange'.sender # "none" => queue'[exchange'.sender] # <<>>
  PROVE  IInv'
  <1>1. /\ queue'["originator"] = asked /\ queue'["recipient"] = answers
        /\ queue' \in [Sides -> Seq(ActionFrame)]
    BY QueueTypes, SentQueues DEF Sides
  <1>2. OriginatorInv' /\ StartsInv'
    BY <1>1, StartsStep DEF IInv, Sent
  <1>3. AnswersInv' /\ AirInv'
    BY <1>1 DEF AnswersInv, AirInv, Sent, Answer, ActionFrame
  <1> QED
    BY <1>2, <1>3 DEF IInv

\* One queue changes, and the exchange begins, goes on, or ends.
LEMMA QueueStep ==
  ASSUME IInv, UNCHANGED data, Later(originator'), recipient' \in Recipients,
         recipient'.pending \subseteq 0 .. Floor(originator),
         recipient'.established \subseteq 0 .. Floor(originator),
         NEW side \in Sides, NEW q \in Seq(Sent(side)),
         queue' = [queue EXCEPT ![side] = q],
         side = "recipient" => Len(q) <= 1,
         recipient'.pending = recipient.pending \/ queue'["recipient"] = <<>>,
         side = "recipient" /\ q # <<>> => queue["recipient"] # <<>>,
         exchange' \in [sender : Sides \cup {"none"}, heard : BOOLEAN],
         exchange'.heard => exchange'.sender # "none",
         exchange'.sender # "none" => queue'[exchange'.sender] # <<>>
  PROVE  IInv'
  <1>1. /\ queue["originator"] \in Seq(Sent("originator"))
        /\ queue["recipient"] \in Seq(Sent("recipient"))
        /\ queue \in [Sides -> Seq(ActionFrame)]
    BY SentQueues, QueueTypes DEF Sides
  <1>2. /\ Len(queue["recipient"]) <= 1
        /\ queue["recipient"] # <<>> => recipient.pending # {}
    BY DEF IInv, AnswersInv
  <1>3. CASE side = "originator"
    <2>1. queue' = [queue EXCEPT !["originator"] = q, !["recipient"] = queue["recipient"]]
      BY <1>1, <1>3
    <2>2. queue'["recipient"] = queue["recipient"]
      BY <1>1, <1>3
    <2> QED
      BY <1>1, <1>2, <1>3, <2>1, <2>2, FrameStep
  <1>4. CASE side = "recipient"
    <2>1. queue' = [queue EXCEPT !["originator"] = queue["originator"], !["recipient"] = q]
      BY <1>1, <1>4
    <2>2. queue'["recipient"] = q
      BY <1>1, <1>4
    <2> QED
      BY <1>1, <1>2, <1>4, <2>1, <2>2, FrameStep
  <1> QED
    BY <1>3, <1>4 DEF Sides

-----------------------------------------------------------------------------
\* A recipient that knows of no start beyond the floor.
Known(r) ==
    /\ r \in Recipients
    /\ r.pending \subseteq 0 .. Floor(originator)
    /\ r.established \subseteq 0 .. Floor(originator)

LEMMA RecipientOperations ==
  ASSUME IInv
  PROVE  /\ Known(recipient)
         /\ Known(Establish(recipient)) /\ Establish(recipient).pending = {}
         /\ \A f \in ActionFrame : /\ Known(ForgetsResponse(recipient, f))
                                   /\ ForgetsResponse(recipient, f).pending = recipient.pending
  <1>1. Known(recipient)
    BY DEF IInv, StartsInv, Known
  <1>2. Known(Establish(recipient)) /\ Establish(recipient).pending = {}
    BY <1>1 DEF Known, Recipients, Establish
  <1>3. ASSUME NEW f \in ActionFrame
        PROVE  /\ Known(ForgetsResponse(recipient, f))
               /\ ForgetsResponse(recipient, f).pending = recipient.pending
    BY <1>1 DEF Known, Recipients, ForgetsResponse
  <1> QED
    BY <1>1, <1>2, <1>3

LEMMA OnAirFrame ==
  ASSUME IInv, exchange # Idle
  PROVE  /\ exchange.sender \in Sides /\ queue[exchange.sender] # <<>>
         /\ queue[exchange.sender] \in Seq(Sent(exchange.sender))
         /\ HeadOf(exchange.sender) = queue[exchange.sender][1]
         /\ HeadOf(exchange.sender) \in Sent(exchange.sender)
         /\ HeadOf(exchange.sender) \in ActionFrame
         /\ Tail(queue[exchange.sender]) \in Seq(Sent(exchange.sender))
         /\ exchange.sender = "recipient" => /\ Tail(queue[exchange.sender]) = <<>>
                                             /\ Len(Tail(queue[exchange.sender])) <= 1
  <1> DEFINE side == exchange.sender
  <1>1. side \in Sides /\ queue[side] # <<>>
    BY DEF IInv, AirInv, Idle
  <1>2. queue[side] \in Seq(Sent(side))
    BY <1>1, SentQueues
  <1> HIDE DEF side
  <1>3. /\ Head(queue[side]) = queue[side][1] /\ queue[side][1] \in Sent(side)
        /\ Tail(queue[side]) \in Seq(Sent(side))
        /\ Len(Tail(queue[side])) = Len(queue[side]) - 1 /\ Len(queue[side]) \in Nat \ {0}
    BY <1>1, <1>2, QueueOperations
  <1>4. side = "recipient" => Tail(queue[side]) = <<>> /\ Len(Tail(queue[side])) <= 1
    BY <1>3, EmptySeq DEF IInv, AnswersInv
  <1>5. queue[side][1] \in ActionFrame
    BY <1>1, <1>3, SentFrames
  <1> QED
    BY <1>1, <1>2, <1>3, <1>4, <1>5 DEF HeadOf, side

\* A frame leaves its queue and the exchange ends.
LEMMA LeaveStep ==
  ASSUME IInv, exchange # Idle, UNCHANGED data, Later(originator'), Known(recipient'),
         queue' = [queue EXCEPT ![exchange.sender] = Tail(@)],
         recipient'.pending = recipient.pending \/ exchange.sender = "recipient",
         exchange' = Idle
  PROVE  IInv'
  <1> DEFINE side == exchange.sender
  <1>1. /\ side \in Sides /\ Tail(queue[side]) \in Seq(Sent(side))
        /\ side = "recipient" => Tail(queue[side]) = <<>>
    BY OnAirFrame
  <1> HIDE DEF side
  <1>2. queue' = [queue EXCEPT ![side] = Tail(queue[side])]
    BY DEF side
  <1>3. side = "recipient" => queue'["recipient"] = <<>>
    BY <1>1, <1>2, QueueTypes
  <1>4. recipient'.pending = recipient.pending \/ queue'["recipient"] = <<>>
    BY <1>3 DEF side
  <1>5. side = "recipient" => Len(Tail(queue[side])) <= 1
    BY OnAirFrame DEF side
  <1>6. /\ exchange' \in [sender : Sides \cup {"none"}, heard : BOOLEAN]
        /\ exchange'.sender = "none" /\ exchange'.heard = FALSE
    BY DEF Idle
  <1> DEFINE q == Tail(queue[side])
  <1>7. q \in Seq(Sent(side)) /\ queue' = [queue EXCEPT ![side] = q]
    BY <1>1, <1>2
  <1>8. side = "recipient" => Len(q) <= 1 /\ q = <<>>
    BY <1>1, <1>5
  <1> HIDE DEF q
  <1> QED
    BY <1>1, <1>4, <1>6, <1>7, <1>8, QueueStep DEF Known

LEMMA TransmitStep == ASSUME NEW side \in Sides PROVE IInv /\ Transmit(side) => IInv'
  <1> SUFFICES ASSUME IInv, Transmit(side) PROVE IInv'
    OBVIOUS
  <1>1. queue[side] \in Seq(Sent(side)) /\ queue' = [queue EXCEPT ![side] = queue[side]]
    BY SentQueues, QueueTypes DEF Transmit
  <1>2. Later(originator') /\ Known(recipient')
    <2>1. Later(originator) /\ Known(recipient)
      BY OriginatorOperations, RecipientOperations DEF IInv
    <2> QED
      BY <2>1 DEF Transmit
  <1>3. Len(queue["recipient"]) <= 1
    BY DEF IInv, AnswersInv
  <1> QED
    BY <1>1, <1>2, <1>3, QueueStep DEF Transmit, Known, Sides

LEMMA AckedStep == IInv /\ Acked => IInv'
  <1> SUFFICES ASSUME IInv, Acked PROVE IInv'
    OBVIOUS
  <1> DEFINE side == exchange.sender
             f == HeadOf(side)
  <1>1. exchange # Idle
    BY DEF Acked, Idle
  <1>2. side \in Sides /\ f \in Sent(side) /\ f \in ActionFrame
    BY <1>1, OnAirFrame
  <1>3. Later(originator')
    BY <1>2, OriginatorOperations DEF IInv, Acked
  <1>4. /\ Known(recipient')
        /\ recipient'.pending = recipient.pending \/ side = "recipient"
    <2>1. CASE f.type # "ADDBA_RESPONSE"
      BY <2>1, RecipientOperations DEF Acked
    <2>2. CASE f.type = "ADDBA_RESPONSE"
      <3>1. side = "recipient"
        BY <1>2, <2>2 DEF Sent, Asked, Sides
      <3> QED
        BY <2>2, <3>1, RecipientOperations DEF Acked
    <2> QED
      BY <2>1, <2>2
  <1> QED
    BY <1>1, <1>3, <1>4, LeaveStep DEF Acked

LEMMA DiscardStep == IInv /\ Discard => IInv'
  <1> SUFFICES ASSUME IInv, Discard PROVE IInv'
    OBVIOUS
  <1>1. exchange # Idle
    BY DEF Discard
  <1>2. HeadOf(exchange.sender) \in ActionFrame
    BY <1>1, OnAirFrame
  <1>3. Later(originator')
    BY OriginatorOperations DEF IInv, Discard
  <1>4. Known(recipient') /\ recipient'.pending = recipient.pending
    BY <1>2, RecipientOperations DEF Discard
  <1> QED
    BY <1>1, <1>3, <1>4, LeaveStep DEF Discard

LEMMA RetryStep == IInv /\ Retry => IInv'
  <1> SUFFICES ASSUME IInv, Retry PROVE IInv'
    OBVIOUS
  <1> DEFINE side == exchange.sender
             f == HeadOf(side)
             again == [queue[side] EXCEPT ![1] = [f EXCEPT !.tries = @ + 1]]
  <1>1. exchange # Idle
    BY DEF Retry
  <1>2. /\ side \in Sides /\ f \in Sent(side) /\ f \in ActionFrame /\ f = queue[side][1]
        /\ queue[side] \in Seq(Sent(side)) /\ queue[side] # <<>>
    BY <1>1, OnAirFrame
  <1>3. Later(originator') /\ Known(recipient') /\ recipient'.pending = recipient.pending
    <2>1. CASE f.expired
      BY <1>2, <2>1, OriginatorOperations, RecipientOperations DEF Retry, IInv
    <2>2. CASE ~f.expired
      BY <1>2, <2>2, OriginatorOperations, RecipientOperations DEF Retry, IInv
    <2> QED
      BY <2>1, <2>2
  <1>4. CASE f.expired
    BY <1>1, <1>3, <1>4, LeaveStep DEF Retry
  <1>5. CASE ~f.expired
    <2>1. [f EXCEPT !.tries = @ + 1] \in Sent(side)
      BY <1>2, SentFrames
    <2>2. again \in Seq(Sent(side)) /\ Len(again) = Len(queue[side]) /\ again # <<>>
      BY <1>2, <2>1, QueueOperations
    <2>3. queue' = [queue EXCEPT ![side] = again]
      BY <1>5 DEF Retry
    <2>4. side = "recipient" => Len(again) <= 1 /\ queue["recipient"] # <<>>
      BY <1>2, <2>2 DEF IInv, AnswersInv
    <2> HIDE DEF side, again
    <2> QED
      BY <1>2, <1>3, <2>2, <2>3, <2>4, QueueStep DEF Retry, Known, Idle
  <1> QED
    BY <1>4, <1>5

LEMMA ExpireStep == IInv /\ Expire => IInv'
  <1> SUFFICES ASSUME IInv, Expire PROVE IInv'
    OBVIOUS
  <1>1. PICK side \in Sides : \E i \in DOMAIN queue[side] :
          LET f == queue[side][i]
              sent == OnAir(side) /\ i = 1
          IN  /\ queue' = [queue EXCEPT ![side] =
                            IF sent THEN [@ EXCEPT ![1].expired = TRUE] ELSE RemoveAt(@, i)]
              /\ originator' = IF sent THEN originator ELSE ForgetsRequest(originator, f)
              /\ recipient' = IF sent THEN recipient ELSE ForgetsResponse(recipient, f)
              /\ UNCHANGED <<data, exchange, requests, status>>
    BY DEF Expire
  <1>2. PICK i \in DOMAIN queue[side] :
          LET f == queue[side][i]
              sent == OnAir(side) /\ i = 1
          IN  /\ queue' = [queue EXCEPT ![side] =
                            IF sent THEN [@ EXCEPT ![1].expired = TRUE] ELSE RemoveAt(@, i)]
              /\ originator' = IF sent THEN originator ELSE ForgetsRequest(originator, f)
              /\ recipient' = IF sent THEN recipient ELSE ForgetsResponse(recipient, f)
              /\ UNCHANGED <<data, exchange, requests, status>>
    BY <1>1
  <1> DEFINE f == queue[side][i]
             sent == OnAir(side) /\ i = 1
             marked == [queue[side] EXCEPT ![1] = [queue[side][1] EXCEPT !.expired = TRUE]]
             shorter == RemoveAt(queue[side], i)
             q == IF sent THEN marked ELSE shorter
  <1>3. queue[side] \in Seq(Sent(side)) /\ queue[side] # <<>>
    <2>1. queue[side] \in Seq(Sent(side))
      BY SentQueues
    <2>2. DOMAIN queue[side] = 1 .. Len(queue[side])
      BY <2>1, LenProperties
    <2>3. i \in 1 .. Len(queue[side]) /\ Len(queue[side]) \in Nat
      BY <2>1, <2>2, LenProperties
    <2>4. Len(queue[side]) # 0
      BY <2>3
    <2> QED
      BY <2>1, <2>4, EmptySeq
  <1>4. f \in Sent(side) /\ f \in ActionFrame /\ queue[side][1] \in Sent(side)
    BY <1>3, QueueOperations, SentFrames
  <1>5. /\ marked \in Seq(Sent(side)) /\ Len(marked) = Len(queue[side]) /\ marked # <<>>
    <2>1. [queue[side][1] EXCEPT !.expired = TRUE] \in Sent(side)
      BY <1>4, SentFrames
    <2> QED
      BY <1>3, <2>1, QueueOperations
  <1>6. /\ shorter \in Seq(Sent(side)) /\ Len(shorter) = Len(queue[side]) - 1
        /\ i # 1 => shorter # <<>>
        /\ Len(queue[side]) \in Nat
    BY <1>3, QueueOperations
  <1>7. queue' = [queue EXCEPT ![side] = q]
    BY <1>2
  <1>8. /\ q \in Seq(Sent(side)) /\ Len(q) <= Len(queue[side])
        /\ OnAir(side) => q # <<>>
    <2> HIDE DEF marked, shorter
    <2> QED
      BY <1>5, <1>6
  <1>9. /\ Later(originator') /\ Known(recipient') /\ recipient'.pending = recipient.pending
        /\ UNCHANGED <<data, exchange>>
    <2>1. CASE sent
      BY <1>2, <2>1, OriginatorOperations, RecipientOperations DEF IInv
    <2>2. CASE ~sent
      BY <1>2, <1>4, <2>2, OriginatorOperations, RecipientOperations DEF IInv
    <2> QED
      BY <2>1, <2>2
  <1>10. side = "recipient" => Len(q) <= 1 /\ queue["recipient"] # <<>>
    BY <1>3, <1>6, <1>8 DEF IInv, AnswersInv
  <1> HIDE DEF q, f, sent
  <1>11. exchange.sender # "none" => queue'[exchange.sender] # <<>>
    BY <1>7, <1>8, QueueTypes DEF IInv, AirInv, OnAir
  <1> QED
    BY <1>7, <1>8, <1>9, <1>10, <1>11, QueueStep DEF Known, IInv, AirInv

\* A timer that leaves both queues alone.
LEMMA TimerStep ==
  ASSUME IInv, Later(originator'), UNCHANGED <<recipient, data, queue, exchange>>
  PROVE  IInv'
  <1>1. "originator" \in Sides /\ queue["originator"] \in Seq(Sent("originator"))
    BY SentQueues DEF Sides
  <1>2. queue' = [queue EXCEPT !["originator"] = queue["originator"]]
    BY QueueTypes
  <1>3. Known(recipient)
    BY RecipientOperations
  <1> QED
    BY <1>1, <1>2, <1>3, QueueStep DEF Known, IInv, AirInv

LEMMA ResponseTimeoutStep == IInv /\ AddBaResponseTimeout => IInv'
  <1> SUFFICES ASSUME IInv, AddBaResponseTimeout PROVE IInv'
    OBVIOUS
  <1> DEFINE o == [originator EXCEPT !.responses = @ - 1]
  <1>1. /\ originator \in Originators /\ originator.responses - 1 \in Nat
        /\ originator.resets + 1 \in Nat
    BY DEF IInv, OriginatorInv, Originators, AddBaResponseTimeout
  <1>2. o \in Originators /\ o.state = originator.state /\ o.start = originator.start
        /\ o.resets = originator.resets
    BY <1>1 DEF Originators
  <1>3. originator' = NoReply(o)
    BY DEF AddBaResponseTimeout
  <1> HIDE DEF o
  <1>4. CASE o.state # "PENDING"
    <2>1. Later(originator')
      BY <1>2, <1>3, <1>4 DEF NoReply, Later
    <2> QED
      BY <2>1, TimerStep DEF AddBaResponseTimeout
  <1>5. CASE o.state = "PENDING"
    <2> DEFINE p == [o EXCEPT !.state = "NO_REPLY", !.blocked = FALSE, !.resets = @ + 1]
    <2>1. p \in Originators /\ p.state = "NO_REPLY"
      BY <1>1, <1>2 DEF Originators
    <2>2. originator' = p
      BY <1>3, <1>5 DEF NoReply
    <2>3. Later(originator')
      BY <2>1, <2>2 DEF Later
    <2> QED
      BY <2>3, TimerStep DEF AddBaResponseTimeout
  <1> QED
    BY <1>4, <1>5

LEMMA ResetStep == IInv /\ ResetBa => IInv'
  <1> SUFFICES ASSUME IInv, ResetBa PROVE IInv'
    OBVIOUS
  <1> DEFINE o == [originator EXCEPT !.resets = @ - 1]
             p == [o EXCEPT !.state = "RESET", !.disturbed = @ \/ o.state = "PENDING"]
  <1>1. originator \in Originators /\ originator.resets - 1 \in Nat
    BY DEF IInv, OriginatorInv, Originators, ResetBa
  <1>2. o \in Originators /\ o.state = originator.state /\ o.start = originator.start
    BY <1>1 DEF Originators
  <1>3. originator' = IF o.state \in {"none", "ESTABLISHED"} THEN o ELSE p
    BY DEF ResetBa
  <1> HIDE DEF o
  <1>4. p \in Originators /\ p.state = "RESET"
    BY <1>2 DEF Originators
  <1> HIDE DEF p
  <1>5. Later(originator')
    BY <1>2, <1>3, <1>4 DEF Later
  <1> QED
    BY <1>5, TimerStep DEF ResetBa

LEMMA InactiveStep == IInv /\ DestroyInactive => IInv'
  <1> SUFFICES ASSUME IInv, DestroyInactive PROVE IInv'
    OBVIOUS
  <1> DEFINE f == Frame("DELBA", 0)
             q == Append(queue["originator"], f)
  <1>1. Later(originator')
    <2>1. CASE originator' = Destroy(originator)
      BY <2>1, OriginatorOperations DEF IInv
    <2>2. CASE originator.orphans > 0 /\ originator' = [Destroy(originator) EXCEPT !.orphans = @ - 1]
      <3>1. Destroy(originator) \in Originators /\ Destroy(originator).state = "none"
            /\ Destroy(originator).orphans = originator.orphans
        BY DEF IInv, OriginatorInv, Originators, Destroy
      <3>2. originator.orphans - 1 \in Nat
        BY <2>2 DEF IInv, OriginatorInv, Originators
      <3>3. originator' \in Originators /\ originator'.state = "none"
        BY <2>2, <3>1, <3>2 DEF Originators
      <3> QED
        BY <3>3 DEF Later
    <2> QED
      BY <2>1, <2>2 DEF DestroyInactive
  <1>2. f \in Asked(Floor(originator))
    BY DEF Frame, Asked, ActionFrame
  <1>3. q \in Seq(Sent("originator")) /\ q # <<>>
    BY <1>2, AskStep DEF Sent
  <1>4. queue' = [queue EXCEPT !["originator"] = q]
    BY DEF DestroyInactive
  <1> HIDE DEF q
  <1>5. exchange.sender # "none" => queue'[exchange.sender] # <<>>
    BY <1>3, <1>4, QueueTypes DEF IInv, AirInv
  <1>6. Known(recipient)
    BY RecipientOperations
  <1> QED
    BY <1>1, <1>3, <1>4, <1>5, <1>6, QueueStep DEF Known, IInv, AirInv, DestroyInactive, Sides

-----------------------------------------------------------------------------
LEMMA HearStep == IInv /\ Hear => IInv'
  <1> SUFFICES ASSUME IInv, Hear PROVE IInv'
    OBVIOUS
  <1> DEFINE side == exchange.sender
             f == HeadOf(side)
             Got(type) == f.type = type /\ ~f.delivered
             q == [queue[side] EXCEPT ![1] = [f EXCEPT !.delivered = TRUE]]
             seen == [queue EXCEPT ![side] = q]
             response == Frame("ADDBA_RESPONSE", 0)
  <1>1. exchange # Idle
    BY DEF Hear
  <1>2. /\ side \in Sides /\ f \in Sent(side) /\ f \in ActionFrame /\ f = queue[side][1]
        /\ queue[side] \in Seq(Sent(side)) /\ queue[side] # <<>>
    BY <1>1, OnAirFrame
  <1>3. /\ exchange' \in [sender : Sides \cup {"none"}, heard : BOOLEAN]
        /\ exchange'.sender = side
    BY <1>2 DEF Hear, IInv, AirInv
  <1>4. q \in Seq(Sent(side)) /\ Len(q) = Len(queue[side]) /\ q # <<>>
    <2>1. [f EXCEPT !.delivered = TRUE] \in Sent(side)
      BY <1>2, SentFrames
    <2> QED
      BY <1>2, <2>1, QueueOperations
  <1>5. Later(originator')
    BY OriginatorOperations DEF Hear, IInv
  <1>6. queue' = IF Got("ADDBA_REQUEST") THEN WithResponse(seen) ELSE seen
    BY <1>2 DEF Hear
  <1>7. UNCHANGED data
    BY DEF Hear
  <1>8. CASE Got("ADDBA_REQUEST")
    <2>1. side = "originator" /\ f.start \in 0 .. Floor(originator)
      BY <1>2, <1>8, QueueTypes DEF Sent, Asked, Answer, ActionFrame, Sides
    <2>2. recipient' = [recipient EXCEPT !.pending = {f.start}, !.abandoned = FALSE]
      BY <1>8 DEF Hear
    <2>3. /\ Known(recipient') /\ recipient'.pending # {}
      <3>1. Known(recipient)
        BY RecipientOperations
      <3>2. f.start \in Nat
        BY <1>2 DEF ActionFrame
      <3> HIDE DEF f
      <3>3. recipient'.pending = {f.start} /\ recipient'.established = recipient.established
            /\ recipient' \in Recipients
        BY <2>2, <3>1, <3>2 DEF Known, Recipients
      <3> QED
        BY <2>1, <3>1, <3>3 DEF Known
    <2>4. <<response>> \in Seq(Sent("recipient")) /\ Len(<<response>>) = 1
      <3>1. response \in Answer
        BY DEF Frame, Answer, ActionFrame
      <3> QED
        BY <3>1 DEF Sent
    <2>5. queue' = [queue EXCEPT !["originator"] = q, !["recipient"] = <<response>>]
      BY <1>6, <1>8, <2>1, QueueTypes DEF WithResponse
    <2>6. queue'[side] # <<>>
      BY <1>4, <2>1, <2>5, QueueTypes
    <2>7. q \in Seq(Sent("originator"))
      BY <1>4, <2>1
    <2>8. /\ exchange'.heard => exchange'.sender # "none"
          /\ exchange'.sender # "none" => queue'[exchange'.sender] # <<>>
      BY <1>3, <2>1, <2>6
    <2>9. recipient' \in Recipients /\ recipient'.pending \subseteq 0 .. Floor(originator)
          /\ recipient'.established \subseteq 0 .. Floor(originator)
      BY <2>3 DEF Known
    <2> DEFINE answers == <<response>>
    <2>10. /\ answers \in Seq(Sent("recipient")) /\ Len(answers) <= 1
           /\ queue' = [queue EXCEPT !["originator"] = q, !["recipient"] = answers]
      BY <2>4, <2>5
    <2> HIDE DEF q, response, side, f, answers
    <2> QED
      BY <1>3, <1>5, <1>7, <2>3, <2>7, <2>8, <2>9, <2>10, FrameStep
  <1>9. CASE ~Got("ADDBA_REQUEST")
    <2>1. Known(recipient') /\ recipient'.pending = recipient.pending
      <3>1. Known(recipient)
        BY RecipientOperations
      <3>2. recipient' = recipient \/ recipient' = [recipient EXCEPT !.established = {}]
        BY <1>9 DEF Hear
      <3> QED
        BY <3>1, <3>2 DEF Known, Recipients
    <2>2. queue' = [queue EXCEPT ![side] = q]
      BY <1>6, <1>9
    <2>3. queue'[side] # <<>>
      BY <1>2, <1>4, <2>2, QueueTypes
    <2>4. side = "recipient" => Len(q) <= 1 /\ queue["recipient"] # <<>>
      BY <1>2, <1>4 DEF IInv, AnswersInv
    <2> HIDE DEF q, side, f
    <2> QED
      BY <1>2, <1>3, <1>4, <1>5, <1>7, <2>1, <2>2, <2>3, <2>4, QueueStep DEF Known, Sides
  <1> QED
    BY <1>8, <1>9

LEMMA InitInv == Init => IInv
  <1> SUFFICES ASSUME Init PROVE IInv
    OBVIOUS
  <1>1. FirstSeq = 0
    BY DEF Init, FirstSeq
  <1>2. originator \in Originators /\ recipient \in Recipients /\ DataInv
    BY DEF Init, Originators, Recipients, DataInv
  <1>3. Floor(originator) = 0
    BY <1>1 DEF Init, Floor
  <1>4. queue["originator"] = <<>> /\ queue["recipient"] = <<>>
        /\ queue \in [Sides -> Seq(ActionFrame)]
    BY DEF Init, Sides
  <1>5. exchange.sender = "none" /\ exchange.heard = FALSE
        /\ exchange \in [sender : Sides \cup {"none"}, heard : BOOLEAN]
    BY DEF Init, Idle
  <1>6. OriginatorInv
    BY <1>1, <1>2, <1>3 DEF OriginatorInv
  <1>7. StartsInv
    <2>1. recipient.pending = {} /\ recipient.established = {}
      BY DEF Init
    <2>2. queue["originator"] \in Seq(Asked(Floor(originator)))
      BY <1>4
    <2> QED
      BY <1>2, <2>1, <2>2 DEF StartsInv
  <1>8. AnswersInv /\ AirInv
    <2>1. <<>> \in Seq(Answer) /\ Len(<<>>) = 0
      BY EmptySeq
    <2> QED
      BY <1>4, <1>5, <2>1 DEF AnswersInv, AirInv
  <1> QED
    BY <1>6, <1>7, <1>8 DEF IInv

LEMMA NextInv == IInv /\ [Next]_vars => IInv'
  <1>1. ASSUME IInv, UNCHANGED vars PROVE IInv'
    <2>1. Later(originator)
      BY <1>1, OriginatorOperations DEF IInv
    <2> QED
      BY <1>1, <2>1, TimerStep DEF vars
  <1>2. ASSUME IInv, Next PROVE IInv'
    <2>1. "originator" \in Sides /\ "recipient" \in Sides
      BY DEF Sides
    <2> QED
      BY <1>2, <2>1, RequestStep, NormalStep, AgreementStep, TransmitStep, HearStep, AckedStep,
         RetryStep, DiscardStep, ExpireStep, ResponseTimeoutStep, ResetStep, InactiveStep
         DEF Next
  <1> QED
    BY <1>1, <1>2

LEMMA Inductive == Spec => []IInv
  BY InitInv, NextInv, PTL DEF Spec

-----------------------------------------------------------------------------
\* However requests and late responses cross, an MPDU that the originator still
\* has to send is within or beyond the window of either end, never before it.
THEOREM NothingUnsentIsOld == Spec => []StartsCoverUnsent
  <1>1. IInv => StartsCoverUnsent
    <2> SUFFICES ASSUME IInv,
                        NEW start \in recipient.pending \cup recipient.established
                               \cup IF originator.state = "ESTABLISHED" THEN {originator.start} ELSE {}
                 PROVE  start <= FirstSeq
      BY DEF StartsCoverUnsent
    <2>1. Floor(originator) \in Nat /\ Floor(originator) <= FirstSeq /\ FirstSeq \in Nat
      BY QueueTypes, FirstSeqValue DEF IInv, OriginatorInv
    <2>2. start \in 0 .. Floor(originator)
      BY <2>1 DEF IInv, StartsInv, Floor
    <2> QED
      BY <2>1, <2>2
  <1> QED
    BY <1>1, Inductive, PTL

\* Whatever is lost, repeated or replaced, the recipient has at most one ADDBA
\* response to send, and its pending agreement is there.
THEOREM ResponseHasAgreement == Spec => []ResponseFindsPending
  <1>1. IInv => ResponseFindsPending
    <2> SUFFICES ASSUME IInv, NEW i \in DOMAIN queue["recipient"]
                 PROVE  i = 1 /\ recipient.pending # {}
      BY DEF ResponseFindsPending
    <2>1. DOMAIN queue["recipient"] = 1 .. Len(queue["recipient"]) /\ Len(queue["recipient"]) \in Nat
      BY LenProperties DEF IInv, AnswersInv
    <2>2. i \in 1 .. Len(queue["recipient"]) /\ Len(queue["recipient"]) <= 1
      BY <2>1 DEF IInv, AnswersInv
    <2>3. i = 1 /\ Len(queue["recipient"]) # 0
      BY <2>1, <2>2
    <2>4. queue["recipient"] # <<>>
      BY <2>3, EmptySeq
    <2> QED
      BY <2>3, <2>4 DEF IInv, AnswersInv
  <1> QED
    BY <1>1, Inductive, PTL

=============================================================================
