--------------------------- MODULE StkCoreProofs ---------------------------
(***************************************************************************)
(* Proofs about StkCore, for any set of invocations, requests and answers, *)
(* with callbacks that call back or do not.  Of MCStkCore only the last    *)
(* theorem uses anything: the answer checks that TLC looks at.             *)
(***************************************************************************)
EXTENDS MCStkCore, TLAPS

-----------------------------------------------------------------------------
(***************************************************************************)
(* The replies.                                                            *)
(***************************************************************************)
(* Every type of the table is well formed; the ones that cannot end their  *)
(* session answer nothing or a boolean.                                    *)
LEMMA TypeInfo ==
  ASSUME NEW ty \in RequestType
  PROVE  /\ answer_kind(ty) \in AnswerKind
         /\ allowed_errors(ty) \subseteq ErrorKind
         /\ "endSession" \notin allowed_errors(ty) => answer_kind(ty) \in {"none", "boolean"}
BY SMTT(30) DEF RequestType, answer_kind, allowed_errors, type_info, AnswerKind, ErrorKind

(* The zeroed struct stk_reply is a reply.                                 *)
LEMMA ZeroReplyType == ZeroReply \in AnyReply
BY DEF ZeroReply, AnyReply, EmptyString, AnyString, AnswerKind, ErrorKind

(* The reply sent when nobody answers is one ofono takes for the type.     *)
LEMMA FallbackType ==
  ASSUME NEW r \in AnyRequest
  PROVE  /\ fallback_reply(r) \in AnyReply
         /\ OfonoAccepts(r, fallback_reply(r))
<1>. r.type \in RequestType
  BY DEF AnyRequest
<1>1. CASE "endSession" \in allowed_errors(r.type)
  BY <1>1, TypeInfo, ZeroReplyType DEF fallback_reply, OfonoAccepts, AnyReply, ErrorKind
<1>2. CASE "endSession" \notin allowed_errors(r.type)
  BY <1>2, TypeInfo, ZeroReplyType
     DEF fallback_reply, OfonoAccepts, AnyReply, ErrorKind, ZeroReply
<1>. QED
  BY <1>1, <1>2

(* An answer that passes the check is one ofono takes for the request.     *)
LEMMA CheckAnswerType ==
  ASSUME NEW r \in AnyRequest, NEW a \in AnyAnswer, NEW reply \in check_answer(r, a)
  PROVE  /\ reply \in AnyReply
         /\ OfonoAccepts(r, reply)
<1>. r.type \in RequestType /\ r.n_items \in Nat
  BY DEF AnyRequest
<1>1. CASE answer_kind(r.type) = "none"
  <2>1. reply = ZeroReply
    BY <1>1 DEF check_answer
  <2>. QED
    BY <1>1, <2>1, ZeroReplyType DEF OfonoAccepts, ZeroReply
<1>2. CASE answer_kind(r.type) = "index"
  <2>1. PICK i \in 0..(r.n_items - 1) :
          reply = [ZeroReply EXCEPT !.answer = "index", !.index = i % 256]
    BY <1>2 DEF check_answer
  <2>2. i % 256 \in 0..255 /\ i % 256 <= i
    OBVIOUS
  <2>3. /\ reply \in AnyReply
        /\ reply.kind = "answer" /\ reply.answer = "index" /\ reply.index = i % 256
    BY <2>1, <2>2, ZeroReplyType DEF AnyReply, AnswerKind, ZeroReply
  <2>4. reply.index < r.n_items
    BY <2>2, <2>3
  <2>. QED
    BY <1>2, <2>3, <2>4 DEF OfonoAccepts
<1>3. CASE answer_kind(r.type) = "boolean"
  <2>1. PICK b \in BOOLEAN : reply = [ZeroReply EXCEPT !.answer = "boolean", !.boolean = b]
    BY <1>3 DEF check_answer
  <2>2. /\ reply \in AnyReply
        /\ reply.kind = "answer" /\ reply.answer = "boolean"
    BY <2>1, ZeroReplyType DEF AnyReply, AnswerKind, ZeroReply
  <2>. QED
    BY <1>3, <2>2 DEF OfonoAccepts
<1>4. CASE answer_kind(r.type) = "string"
  <2>1. /\ a.string.valid /\ check_string(r, a.string)
        /\ reply = [ZeroReply EXCEPT !.answer = "string", !.string = a.string]
    BY <1>4 DEF check_answer
  <2>2. a.string \in AnyString
    BY DEF AnyAnswer
  <2>3. OfonoTakesString(r, a.string)
    <3>1. r.type \in {"input", "digits", "key", "digit", "quickDigit"}
      BY <2>1 DEF check_string
    <3>. QED
      BY <2>1, <2>2, <3>1 DEF OfonoTakesString, check_string, DigitSets, AnyString, AnyRequest
  <2>4. /\ reply \in AnyReply
        /\ reply.kind = "answer" /\ reply.answer = "string" /\ reply.string = a.string
    BY <2>1, <2>2, ZeroReplyType DEF AnyReply, AnswerKind, ZeroReply
  <2>. QED
    BY <1>4, <2>3, <2>4 DEF OfonoAccepts
<1>. QED
  BY <1>1, <1>2, <1>3, <1>4, TypeInfo DEF AnswerKind

(* So is whatever stk_core_respond sends, whatever the action asked for.   *)
LEMMA RespondType ==
  ASSUME NEW r \in AnyRequest, NEW action \in Action, NEW a \in AnyAnswer,
         NEW reply \in respond_reply(r, action, a)
  PROVE  /\ reply \in AnyReply
         /\ OfonoAccepts(r, reply)
<1>1. CASE action = "answer"
  BY <1>1, CheckAnswerType DEF respond_reply
<1>2. CASE action = "cancel"
  BY <1>2, FallbackType DEF respond_reply
<1>3. CASE action \notin {"answer", "cancel"}
  <2>1. /\ action \in ErrorKind /\ action \in allowed_errors(r.type)
        /\ reply = [ZeroReply EXCEPT !.kind = action]
    BY <1>3 DEF respond_reply, Action
  <2>. QED
    BY <2>1, ZeroReplyType DEF OfonoAccepts, AnyReply, ErrorKind
<1>. QED
  BY <1>1, <1>2, <1>3

-----------------------------------------------------------------------------
(***************************************************************************)
(* The inductive invariant.  A frame that is about a request needs that    *)
(* request to have been submitted; a stk_core_submit that still has to     *)
(* push its request holds one nobody else will push.                       *)
(***************************************************************************)
AboutRequest == {"reply", "ended", "arrived"}

GoodStack(s) ==
  /\ \A i \in DOMAIN s : s[i].op \in AboutRequest => s[i].tok \in Token /\ order[s[i].tok] # 0
  /\ \A i \in DOMAIN s : s[i].op = "submit" =>
       s[i].tok \in Token /\ req[s[i].tok] # NoRequest /\ order[s[i].tok] = 0
  /\ \A i, j \in DOMAIN s :
       (s[i].op = "submit" /\ s[j].op = "submit" /\ s[i].tok = s[j].tok) => i = j

Submitted ==
  /\ \A t \in Token : order[t] # 0 => req[t] # NoRequest
  /\ \A t \in Token : order[t] = 0 => sent[t] = <<>>

IInv ==
  /\ TypeOK
  /\ GoodStack(stack)
  /\ Submitted
  /\ ExactlyOneReply
  /\ TimerOnlyWhilePending
  /\ RepliesAccepted

(***************************************************************************)
(* Pushing and popping frames.                                             *)
(***************************************************************************)
LEMMA PushSeq ==
  ASSUME NEW f \in Frame, NEW s \in Seq(Frame)
  PROVE  /\ Push(f, s) \in Seq(Frame)
         /\ DOMAIN Push(f, s) = 1..(Len(s) + 1)
         /\ DOMAIN Push(f, s) \subseteq Nat \ {0}
         /\ Push(f, s)[1] = f
         /\ \A i \in 1..Len(s) : Push(f, s)[i + 1] = s[i]
         /\ \A i \in DOMAIN Push(f, s) : i # 1 => i - 1 \in DOMAIN s /\ Push(f, s)[i] = s[i - 1]
BY DEF Push

LEMMA TailSeq ==
  ASSUME NEW s \in Seq(Frame), s # <<>>
  PROVE  /\ Tail(s) \in Seq(Frame)
         /\ Head(s) = s[1] /\ 1 \in DOMAIN s /\ s[1] \in Frame
         /\ \A i \in DOMAIN Tail(s) : i + 1 \in DOMAIN s /\ Tail(s)[i] = s[i + 1]
OBVIOUS

(* What lies below the running frame is as good as the whole stack.        *)
LEMMA TailGood ==
  ASSUME NEW s \in Seq(Frame), s # <<>>, GoodStack(s)
  PROVE  GoodStack(Tail(s))
BY TailSeq DEF GoodStack

(* A frame that holds no request, or a submitted one, may be pushed.       *)
LEMMA PushGood ==
  ASSUME NEW s \in Seq(Frame), GoodStack(s), NEW f \in Frame, f.op # "submit",
         f.op \in AboutRequest => f.tok \in Token /\ order[f.tok] # 0
  PROVE  GoodStack(Push(f, s))
<1>. DEFINE p == Push(f, s)
<1>1. /\ DOMAIN p = 1..(Len(s) + 1) /\ p[1] = f
      /\ \A i \in DOMAIN p : i # 1 => i - 1 \in DOMAIN s /\ p[i] = s[i - 1]
  BY PushSeq
<1>. HIDE DEF p
<1>2. \A i \in DOMAIN p : p[i].op \in AboutRequest => p[i].tok \in Token /\ order[p[i].tok] # 0
  BY <1>1 DEF GoodStack
<1>3. \A i \in DOMAIN p : p[i].op = "submit" =>
        p[i].tok \in Token /\ req[p[i].tok] # NoRequest /\ order[p[i].tok] = 0
  BY <1>1 DEF GoodStack
<1>4. ASSUME NEW i \in DOMAIN p, NEW j \in DOMAIN p,
             p[i].op = "submit", p[j].op = "submit", p[i].tok = p[j].tok
      PROVE  i = j
  <2>1. i - 1 \in DOMAIN s /\ p[i] = s[i - 1] /\ j - 1 \in DOMAIN s /\ p[j] = s[j - 1]
    BY <1>1, <1>4
  <2>2. i - 1 = j - 1
    BY <1>4, <2>1 DEF GoodStack
  <2>. QED
    BY <1>1, <2>2
<1>. QED
  BY <1>2, <1>3, <1>4 DEF GoodStack, p

(* The frames the core pushes.                                             *)
LEMMA CallFrameType ==
  ASSUME NEW op \in FrameOp, NEW t \in Token \cup {NoToken}, NEW reason \in EndReason
  PROVE  /\ CallFrame(op, t, reason) \in Frame
         /\ CallFrame(op, t, reason).op = op
         /\ CallFrame(op, t, reason).tok = t
BY DEF CallFrame, Frame

LEMMA LoopFrameType ==
  ASSUME NEW batch \in SUBSET Token, NEW reason \in EndReason
  PROVE  LoopFrame(batch, reason) \in Frame /\ LoopFrame(batch, reason).op = "ending"
BY DEF LoopFrame, Frame, FrameOp

-----------------------------------------------------------------------------
(***************************************************************************)
(* The steps.                                                              *)
(***************************************************************************)
LEMMA InitIInv == Init => IInv
<1>. SUFFICES ASSUME Init
              PROVE  IInv
  OBVIOUS
<1>. USE DEF Init
<1>1. TypeOK
  <2>1. 1 \in 1..MaxId /\ 0 \in 0..MaxId
    BY StkCoreAssumption
  <2>2. /\ id \in [Token -> 0..MaxId] /\ order \in [Token -> Nat]
        /\ req \in [Token -> Requests \cup {NoRequest}]
    BY <2>1
  <2>3. /\ sent \in [Token -> Seq(AnyReply)]
        /\ events \in [Token -> Seq({"request"} \cup EndReason)]
        /\ stack \in Seq(Frame)
    OBVIOUS
  <2>. QED
    BY <2>1, <2>2, <2>3 DEF TypeOK
<1>2. GoodStack(stack) /\ Submitted /\ ExactlyOneReply /\ TimerOnlyWhilePending
  BY DEF GoodStack, Submitted, ExactlyOneReply, TimerOnlyWhilePending
<1>3. RepliesAccepted
  BY DEF RepliesAccepted
<1>. QED
  BY <1>1, <1>2, <1>3 DEF IInv

(* A pending request has been submitted, with a request of its own.        *)
LEMMA PendingFacts ==
  ASSUME IInv, NEW t \in pending
  PROVE  /\ t \in Token /\ order[t] # 0 /\ sent[t] = <<>>
         /\ req[t] \in Requests /\ req[t] \in AnyRequest
BY StkCoreAssumption DEF IInv, TypeOK, Submitted, ExactlyOneReply

(* Unlinking a pending request and replying to it keeps the invariant,     *)
(* whoever does it and with whatever reply ofono takes.                    *)
LEMMA EndPendingStep ==
  ASSUME IInv, NEW t \in pending, NEW reply \in AnyReply, OfonoAccepts(req[t], reply),
         NEW reason \in EndReason, NEW below \in Seq(Frame), GoodStack(below),
         end_pending(t, reply, reason, below)
  PROVE  IInv'
<1>. USE DEF IInv
<1>1. /\ t \in Token /\ order[t] # 0 /\ sent[t] = <<>> /\ req[t] # NoRequest
  BY PendingFacts, StkCoreAssumption
<1>2. /\ sent' = [sent EXCEPT ![t] = <<reply>>]
      /\ pending' = pending \ {t} /\ timer' = timer \ {t}
      /\ UNCHANGED <<alive, req, id, order, count, freed, next_id, wrapped, timeout_on, events>>
  BY <1>1 DEF end_pending
<1>3. /\ CallFrame("reply", t, reason) \in Frame
      /\ CallFrame("reply", t, reason).op = "reply" /\ CallFrame("reply", t, reason).tok = t
  BY <1>1, CallFrameType DEF FrameOp
<1>4. stack' = Push(CallFrame("reply", t, reason), below)
  BY DEF end_pending
<1>5. stack' \in Seq(Frame)
  BY <1>3, <1>4, PushSeq
<1>6. GoodStack(stack')
  BY <1>1, <1>3, <1>4, PushGood
<1>7. TypeOK'
  BY <1>1, <1>2, <1>5 DEF TypeOK
<1>8. GoodStack(stack)'
  BY <1>2, <1>6 DEF GoodStack
<1>9. Submitted'
  BY <1>1, <1>2 DEF Submitted, TypeOK
<1>10. ExactlyOneReply'
  BY <1>1, <1>2 DEF ExactlyOneReply, TypeOK
<1>11. TimerOnlyWhilePending'
  BY <1>2 DEF TimerOnlyWhilePending
<1>12. RepliesAccepted'
  BY <1>1, <1>2 DEF RepliesAccepted, TypeOK
<1>. QED
  BY <1>7, <1>8, <1>9, <1>10, <1>11, <1>12

(* A step that changes neither the requests nor their replies keeps the    *)
(* invariant when the stack it leaves is a good one.                       *)
LEMMA StackOnlyStep ==
  ASSUME IInv, TypeOK', GoodStack(stack'),
         UNCHANGED <<pending, order, timer, sent>>,
         \A t \in Token : req[t] # NoRequest => req'[t] = req[t]
  PROVE  IInv'
<1>. USE DEF IInv
<1>1. GoodStack(stack)'
  BY DEF GoodStack
<1>2. Submitted'
  BY DEF Submitted
<1>3. ExactlyOneReply' /\ TimerOnlyWhilePending'
  BY DEF ExactlyOneReply, TimerOnlyWhilePending
<1>4. RepliesAccepted'
  BY DEF RepliesAccepted, Submitted, TypeOK
<1>. QED
  BY <1>1, <1>2, <1>3, <1>4

LEMMA SubmitStep ==
  ASSUME IInv, NEW t \in Token, NEW r \in Requests, Submit(t, r)
  PROVE  IInv'
<1>. USE DEF IInv
<1>. DEFINE cf == CallFrame("submit", t, "answered")
            lf == LoopFrame(Matching(r.sim, BOOLEAN), "superseded")
            s1 == Push(cf, stack)
<1>1. /\ cf \in Frame /\ cf.op = "submit" /\ cf.tok = t
      /\ lf \in Frame /\ lf.op = "ending"
  BY CallFrameType, LoopFrameType DEF TypeOK, FrameOp, EndReason, Matching
<1>2. /\ stack' = Push(lf, s1)
      /\ req[t] = NoRequest /\ req' = [req EXCEPT ![t] = r]
      /\ UNCHANGED <<alive, pending, id, order, count, timer, freed, next_id, wrapped,
                     timeout_on, sent, events>>
  BY DEF Submit
<1>. HIDE DEF cf, lf
<1>3. /\ s1 \in Seq(Frame) /\ s1[1] = cf
      /\ \A i \in DOMAIN s1 : i # 1 => i - 1 \in DOMAIN stack /\ s1[i] = stack[i - 1]
      /\ DOMAIN s1 \subseteq Nat \ {0}
  <2>1. stack \in Seq(Frame)
    BY DEF TypeOK
  <2>. QED
    BY <1>1, <2>1, PushSeq, ZenonT(60)
<1>. HIDE DEF s1
<1>4. /\ stack' \in Seq(Frame) /\ stack'[1] = lf
      /\ \A i \in DOMAIN stack' : i # 1 => i - 1 \in DOMAIN s1 /\ stack'[i] = s1[i - 1]
      /\ DOMAIN stack' \subseteq Nat \ {0}
  <2>1. /\ Push(lf, s1) \in Seq(Frame) /\ Push(lf, s1)[1] = lf
        /\ \A i \in DOMAIN Push(lf, s1) : i # 1 => i - 1 \in DOMAIN s1 /\ Push(lf, s1)[i] = s1[i - 1]
        /\ DOMAIN Push(lf, s1) \subseteq Nat \ {0}
    BY <1>1, <1>3, PushSeq
  <2>. QED
    BY <1>2, <2>1
<1>5. TypeOK'
  BY <1>2, <1>4 DEF TypeOK
<1>6. order[t] = 0
  BY <1>2 DEF Submitted
<1>7. GoodStack(stack)'
  <2>1. \A i \in DOMAIN stack' :
           \/ i = 1 /\ stack'[i] = lf
           \/ i = 2 /\ stack'[i] = cf
           \/ i - 2 \in DOMAIN stack /\ stack'[i] = stack[i - 2]
    <3>1. ASSUME NEW i \in DOMAIN stack', i # 1, i # 2
          PROVE  i - 2 \in DOMAIN stack /\ stack'[i] = stack[i - 2]
      <4>1. i \in Nat /\ i - 1 \in DOMAIN s1 /\ stack'[i] = s1[i - 1] /\ i - 1 # 1
        BY <1>4, <3>1
      <4>2. (i - 1) - 1 \in DOMAIN stack /\ s1[i - 1] = stack[(i - 1) - 1] /\ (i - 1) - 1 = i - 2
        BY <1>3, <4>1
      <4>. QED
        BY <4>1, <4>2
    <3>2. 2 \in DOMAIN stack' => stack'[2] = cf
      BY <1>3, <1>4
    <3>. QED
      BY <1>4, <3>1, <3>2
  <2>2. \A i \in DOMAIN stack : stack[i].op = "submit" => stack[i].tok # t
    BY <1>2 DEF GoodStack
  <2>3. \A i \in DOMAIN stack' : stack'[i].op \in AboutRequest =>
           stack'[i].tok \in Token /\ order'[stack'[i].tok] # 0
    BY <1>1, <1>2, <2>1 DEF GoodStack, AboutRequest
  <2>4. \A i \in DOMAIN stack' : stack'[i].op = "submit" =>
           stack'[i].tok \in Token /\ req'[stack'[i].tok] # NoRequest /\ order'[stack'[i].tok] = 0
    <3>1. req'[t] # NoRequest /\ \A u \in Token : u # t => req'[u] = req[u]
      BY <1>2, StkCoreAssumption DEF TypeOK
    <3>2. \A i \in DOMAIN stack : stack[i].op = "submit" =>
            stack[i].tok \in Token /\ req'[stack[i].tok] # NoRequest /\ order[stack[i].tok] = 0
      BY <2>2, <3>1 DEF GoodStack
    <3>. QED
      BY <1>1, <1>2, <1>6, <2>1, <3>1, <3>2
  <2>5. ASSUME NEW i \in DOMAIN stack', NEW j \in DOMAIN stack',
               stack'[i].op = "submit", stack'[j].op = "submit", stack'[i].tok = stack'[j].tok
        PROVE  i = j
    <3>1. \A k \in DOMAIN stack' : stack'[k].op = "submit" =>
             \/ k = 2 /\ stack'[k].tok = t
             \/ k - 2 \in DOMAIN stack /\ stack'[k] = stack[k - 2] /\ stack'[k].tok # t
      BY <1>1, <2>1, <2>2
    <3>2. CASE stack'[i].tok = t
      BY <2>5, <3>1, <3>2
    <3>3. CASE stack'[i].tok # t
      <4>1. i - 2 = j - 2
        BY <2>5, <3>1, <3>3 DEF GoodStack
      <4>. QED
        BY <1>4, <4>1
    <3>. QED
      BY <3>2, <3>3
  <2>. QED
    BY <2>3, <2>4, <2>5 DEF GoodStack
<1>8. Submitted' /\ ExactlyOneReply' /\ TimerOnlyWhilePending'
  BY <1>2, StkCoreAssumption DEF Submitted, ExactlyOneReply, TimerOnlyWhilePending, TypeOK
<1>9. RepliesAccepted'
  BY <1>2, <1>6 DEF RepliesAccepted, Submitted, TypeOK
<1>. QED
  BY <1>5, <1>7, <1>8, <1>9

LEMMA RespondStep ==
  ASSUME IInv, NEW i \in 1..MaxId, NEW action \in Action, NEW a \in Answers,
         Respond(i, action, a)
  PROVE  IInv'
<1>1. PICK t \in find_pending(i) :
        \E reply \in respond_reply(req[t], action, a) : end_pending(t, reply, "answered", stack)
  BY DEF Respond
<1>2. t \in pending
  BY <1>1 DEF find_pending, Oldest
<1>3. PICK reply \in respond_reply(req[t], action, a) : end_pending(t, reply, "answered", stack)
  BY <1>1
<1>4. reply \in AnyReply /\ OfonoAccepts(req[t], reply)
  BY <1>2, <1>3, PendingFacts, RespondType, StkCoreAssumption
<1>. QED
  BY <1>2, <1>3, <1>4, EndPendingStep DEF IInv, TypeOK, EndReason

(* The fallback is a reply ofono takes, so ending with it is one case of   *)
(* EndPendingStep.                                                         *)
LEMMA FallbackStep ==
  ASSUME IInv, NEW t \in pending, NEW reason \in EndReason, NEW below \in Seq(Frame),
         GoodStack(below), end_with_fallback(t, reason, below)
  PROVE  IInv'
<1>1. fallback_reply(req[t]) \in AnyReply /\ OfonoAccepts(req[t], fallback_reply(req[t]))
  BY PendingFacts, FallbackType
<1>. QED
  BY <1>1, EndPendingStep DEF end_with_fallback

LEMMA EndAgentStep ==
  ASSUME IInv, NEW sim, NEW sessions, NEW reason \in EndReason, EndAgent(sim, sessions, reason)
  PROVE  IInv'
<1>. USE DEF IInv
<1>. DEFINE f == LoopFrame(Matching(sim, sessions), reason)
<1>1. f \in Frame /\ f.op = "ending"
  BY LoopFrameType DEF Matching, TypeOK
<1>2. stack' = Push(f, stack)
  BY DEF EndAgent
<1>. HIDE DEF f
<1>3. stack' \in Seq(Frame) /\ GoodStack(stack')
  BY <1>1, <1>2, PushSeq, PushGood DEF AboutRequest, TypeOK
<1>4. TypeOK'
  BY <1>3 DEF TypeOK, EndAgent
<1>. QED
  BY <1>3, <1>4, StackOnlyStep DEF EndAgent

LEMMA SetTimeoutStep ==
  ASSUME IInv, NEW on \in Timeouts, SetTimeout(on)
  PROVE  IInv'
<1>1. TypeOK'
  BY StkCoreAssumption DEF IInv, TypeOK, SetTimeout
<1>. QED
  BY <1>1, StackOnlyStep DEF IInv, SetTimeout

LEMMA FreeStep ==
  ASSUME IInv, Free
  PROVE  IInv'
<1>1. CallFrame("free", NoToken, "shutdown") \in Frame
  BY CallFrameType DEF FrameOp, EndReason
<1>2. TypeOK'
  BY <1>1 DEF IInv, TypeOK, Free
<1>3. GoodStack(stack')
  BY DEF GoodStack, Free, CallFrame, AboutRequest
<1>. QED
  BY <1>2, <1>3, StackOnlyStep DEF Free

LEMMA TimerFiresStep ==
  ASSUME IInv, NEW t \in Token, TimerFires(t)
  PROVE  IInv'
<1>1. t \in pending /\ stack \in Seq(Frame) /\ GoodStack(stack)
  BY DEF TimerFires, IInv, TimerOnlyWhilePending, TypeOK
<1>. QED
  BY <1>1, FallbackStep DEF TimerFires, EndReason

LEMMA EndNextStep ==
  ASSUME IInv, EndNext
  PROVE  IInv'
<1>. USE DEF IInv
<1>1. /\ stack # <<>> /\ stack \in Seq(Frame) /\ GoodStack(stack)
      /\ Head(stack) \in Frame /\ Head(stack).op = "ending"
  BY TailSeq DEF EndNext, Running, TypeOK
<1>2. PICK t \in Oldest(Head(stack).batch) :
        LET rest == Push([Head(stack) EXCEPT !.batch = @ \ {t}], Tail(stack))
        IN  IF find_pending(id[t]) = {}
            THEN /\ stack' = rest
                 /\ UNCHANGED <<alive, pending, req, id, order, count, timer, freed, next_id,
                                wrapped, timeout_on, sent, events>>
            ELSE \E p \in find_pending(id[t]) : end_with_fallback(p, Head(stack).reason, rest)
  BY DEF EndNext
<1>. DEFINE f == [Head(stack) EXCEPT !.batch = @ \ {t}]
            rest == Push(f, Tail(stack))
<1>3. f \in Frame /\ f.op = "ending" /\ Head(stack).reason \in EndReason
  BY <1>1 DEF Frame
<1>4. rest \in Seq(Frame) /\ GoodStack(rest)
  <2>1. Tail(stack) \in Seq(Frame) /\ GoodStack(Tail(stack))
    BY <1>1, TailSeq, TailGood
  <2>2. f.op # "submit" /\ f.op \notin AboutRequest
    BY <1>3 DEF AboutRequest
  <2>. HIDE DEF f
  <2>. QED
    BY <1>3, <2>1, <2>2, PushSeq, PushGood
<1>5. CASE find_pending(id[t]) = {}
  <2>1. /\ stack' = rest
        /\ UNCHANGED <<alive, pending, req, id, order, count, timer, freed, next_id,
                       wrapped, timeout_on, sent, events>>
    BY <1>2, <1>5
  <2>2. TypeOK'
    BY <1>4, <2>1 DEF TypeOK
  <2>. QED
    BY <1>4, <2>1, <2>2, StackOnlyStep
<1>6. CASE find_pending(id[t]) # {}
  <2>1. PICK p \in find_pending(id[t]) : end_with_fallback(p, Head(stack).reason, rest)
    BY <1>2, <1>6
  <2>2. p \in pending
    BY <2>1 DEF find_pending, Oldest
  <2>. HIDE DEF rest
  <2>. QED
    BY <1>3, <1>4, <2>1, <2>2, FallbackStep
<1>. QED
  BY <1>5, <1>6

LEMMA EndDoneStep ==
  ASSUME IInv, EndDone
  PROVE  IInv'
<1>1. stack # <<>> /\ stack \in Seq(Frame) /\ GoodStack(stack) /\ stack' = Tail(stack)
  BY DEF EndDone, Running, IInv, TypeOK
<1>2. stack' \in Seq(Frame) /\ GoodStack(stack')
  BY <1>1, TailSeq, TailGood
<1>3. TypeOK'
  BY <1>2 DEF IInv, TypeOK, EndDone
<1>. QED
  BY <1>2, <1>3, StackOnlyStep DEF EndDone

LEMMA SubmitPushStep ==
  ASSUME IInv, SubmitPush
  PROVE  IInv'
<1>. USE DEF IInv
<1>. DEFINE t == Head(stack).tok
            f == CallFrame("arrived", t, "answered")
<1>1. /\ stack # <<>> /\ stack \in Seq(Frame) /\ GoodStack(stack)
      /\ 1 \in DOMAIN stack /\ stack[1] = Head(stack) /\ stack[1].op = "submit"
  BY TailSeq DEF SubmitPush, Running, TypeOK
<1>2. /\ t \in Token /\ req[t] # NoRequest /\ order[t] = 0 /\ sent[t] = <<>>
  BY <1>1 DEF GoodStack, Submitted
<1>3. /\ id' = [id EXCEPT ![t] = next_id] /\ take_id
      /\ pending' = pending \cup {t}
      /\ order' = [order EXCEPT ![t] = count + 1] /\ count' = count + 1
      /\ timer' = IF timeout_on THEN timer \cup {t} ELSE timer
      /\ events' = [events EXCEPT ![t] = Append(@, "request")]
      /\ stack' = Push(f, Tail(stack))
      /\ UNCHANGED <<alive, req, freed, timeout_on, sent>>
  BY DEF SubmitPush
<1>4. f \in Frame /\ f.op = "arrived" /\ f.tok = t
  BY <1>2, CallFrameType DEF FrameOp, EndReason
<1>5. Tail(stack) \in Seq(Frame) /\ \A i \in DOMAIN Tail(stack) :
                                       i \in Nat /\ i # 0 /\ i + 1 \in DOMAIN stack /\ Tail(stack)[i] = stack[i + 1]
  BY <1>1
<1>. HIDE DEF f
<1>6. /\ stack' \in Seq(Frame) /\ stack'[1] = f
      /\ \A i \in DOMAIN stack' : i # 1 => i - 1 \in DOMAIN Tail(stack) /\ stack'[i] = Tail(stack)[i - 1]
      /\ DOMAIN stack' \subseteq Nat \ {0}
  <2>. DEFINE p == Push(f, Tail(stack))
  <2>1. /\ p \in Seq(Frame) /\ p[1] = f
        /\ \A i \in DOMAIN p : i # 1 => i - 1 \in DOMAIN Tail(stack) /\ p[i] = Tail(stack)[i - 1]
        /\ DOMAIN p \subseteq Nat \ {0}
    BY <1>4, <1>5, PushSeq
  <2>. HIDE DEF p
  <2>2. stack' = p
    BY <1>3 DEF p
  <2>. QED
    BY <2>1, <2>2
<1>7. \A i \in DOMAIN stack' : i = 1 \/ (i > 1 /\ i \in DOMAIN stack /\ stack'[i] = stack[i])
  BY <1>5, <1>6
<1>8. TypeOK'
  <2>1. next_id' \in 1..MaxId /\ wrapped' \in BOOLEAN
    BY <1>3, StkCoreAssumption DEF take_id, TypeOK
  <2>2. events' \in [Token -> Seq({"request"} \cup EndReason)]
    <3>1. events[t] \in Seq({"request"} \cup EndReason)
      BY <1>2 DEF TypeOK
    <3>2. Append(events[t], "request") \in Seq({"request"} \cup EndReason)
      BY <3>1
    <3>. QED
      BY <1>3, <3>2 DEF TypeOK
  <2>3. id' \in [Token -> 0..MaxId] /\ order' \in [Token -> Nat] /\ count' \in Nat
    <3>1. next_id \in 0..MaxId /\ count + 1 \in Nat
      BY StkCoreAssumption DEF TypeOK
    <3>. QED
      BY <1>3, <3>1 DEF TypeOK
  <2>4. pending' \subseteq Token /\ timer' \subseteq Token
    BY <1>2, <1>3 DEF TypeOK
  <2>. QED
    BY <1>3, <1>6, <2>1, <2>2, <2>3, <2>4 DEF TypeOK
<1>9. GoodStack(stack)'
  <2>1. order'[t] # 0 /\ \A u \in Token : u # t => order'[u] = order[u]
    BY <1>2, <1>3 DEF TypeOK
  <2>2. \A i \in DOMAIN stack' : stack'[i].op \in AboutRequest =>
           stack'[i].tok \in Token /\ order'[stack'[i].tok] # 0
    <3>1. \A i \in DOMAIN stack : stack[i].op \in AboutRequest =>
            stack[i].tok \in Token /\ order'[stack[i].tok] # 0
      BY <1>1, <1>2, <2>1 DEF GoodStack
    <3>. HIDE DEF t
    <3>. QED
      BY <1>2, <1>4, <1>6, <1>7, <2>1, <3>1
  <2>3. \A i \in DOMAIN stack' : stack'[i].op = "submit" =>
           i # 1 /\ i \in DOMAIN stack /\ stack'[i] = stack[i] /\ stack[i].tok # t
    BY <1>1, <1>4, <1>6, <1>7 DEF GoodStack
  <2>4. \A i \in DOMAIN stack' : stack'[i].op = "submit" =>
           stack'[i].tok \in Token /\ req'[stack'[i].tok] # NoRequest /\ order'[stack'[i].tok] = 0
    BY <1>3, <2>1, <2>3 DEF GoodStack
  <2>5. \A i, j \in DOMAIN stack' :
           (stack'[i].op = "submit" /\ stack'[j].op = "submit" /\ stack'[i].tok = stack'[j].tok)
             => i = j
    BY <2>3 DEF GoodStack
  <2>. QED
    BY <2>2, <2>4, <2>5 DEF GoodStack
<1>10. Submitted'
  BY <1>2, <1>3 DEF Submitted, TypeOK
<1>11. ExactlyOneReply'
  BY <1>2, <1>3 DEF ExactlyOneReply, TypeOK
<1>12. TimerOnlyWhilePending'
  BY <1>3 DEF TimerOnlyWhilePending
<1>13. RepliesAccepted'
  BY <1>3 DEF RepliesAccepted
<1>. QED
  BY <1>8, <1>9, <1>10, <1>11, <1>12, <1>13

LEMMA ReplyReturnsStep ==
  ASSUME IInv, ReplyReturns
  PROVE  IInv'
<1>. USE DEF IInv
<1>. DEFINE f == [Head(stack) EXCEPT !.op = "ended"]
<1>1. /\ stack # <<>> /\ stack \in Seq(Frame) /\ GoodStack(stack)
      /\ 1 \in DOMAIN stack /\ stack[1] = Head(stack) /\ Head(stack) \in Frame
      /\ Head(stack).op = "reply"
  BY TailSeq DEF ReplyReturns, Running, TypeOK
<1>2. Head(stack).tok \in Token /\ order[Head(stack).tok] # 0
  BY <1>1 DEF GoodStack, AboutRequest
<1>3. f \in Frame /\ f.op = "ended" /\ f.tok = Head(stack).tok
  BY <1>1 DEF Frame, FrameOp
<1>4. stack' = Push(f, Tail(stack))
  BY DEF ReplyReturns
<1>5. Tail(stack) \in Seq(Frame) /\ GoodStack(Tail(stack))
  BY <1>1, TailSeq, TailGood
<1>. HIDE DEF f
<1>6. stack' \in Seq(Frame) /\ GoodStack(stack')
  BY <1>2, <1>3, <1>4, <1>5, PushSeq, PushGood
<1>7. events' \in [Token -> Seq({"request"} \cup EndReason)]
  <2>1. Head(stack).reason \in EndReason
    BY <1>1 DEF Frame
  <2>. QED
    BY <1>2, <2>1 DEF TypeOK, ReplyReturns
<1>8. TypeOK'
  BY <1>6, <1>7 DEF TypeOK, ReplyReturns
<1>. QED
  BY <1>6, <1>8, StackOnlyStep DEF ReplyReturns

LEMMA EventReturnsStep ==
  ASSUME IInv, EventReturns
  PROVE  IInv'
<1>1. /\ stack # <<>> /\ stack \in Seq(Frame) /\ GoodStack(stack) /\ stack' = Tail(stack)
      /\ Head(stack).op \in AboutRequest
  BY DEF EventReturns, Running, IInv, TypeOK, AboutRequest
<1>2. stack' \in Seq(Frame) /\ GoodStack(stack')
  BY <1>1, TailSeq, TailGood
<1>3. Head(stack).tok \in Token
  BY <1>1, TailSeq DEF GoodStack
<1>4. TypeOK'
  BY <1>2, <1>3 DEF IInv, TypeOK, EventReturns
<1>. QED
  BY <1>2, <1>4, StackOnlyStep DEF EventReturns

LEMMA FreeNextStep ==
  ASSUME IInv, FreeNext
  PROVE  IInv'
<1>1. PICK t \in Oldest(pending) : end_with_fallback(t, "shutdown", stack)
  BY DEF FreeNext
<1>2. t \in pending /\ stack \in Seq(Frame) /\ GoodStack(stack)
  BY <1>1 DEF Oldest, IInv, TypeOK
<1>. QED
  BY <1>1, <1>2, FallbackStep DEF EndReason

LEMMA FreeDoneStep ==
  ASSUME IInv, FreeDone
  PROVE  IInv'
<1>1. stack # <<>> /\ stack \in Seq(Frame) /\ GoodStack(stack) /\ stack' = Tail(stack)
  BY DEF FreeDone, Running, IInv, TypeOK
<1>2. stack' \in Seq(Frame) /\ GoodStack(stack')
  BY <1>1, TailSeq, TailGood
<1>3. TypeOK'
  BY <1>2 DEF IInv, TypeOK, FreeDone
<1>. QED
  BY <1>2, <1>3, StackOnlyStep DEF FreeDone

LEMMA NextStep == IInv /\ [Next]_coreVars => IInv'
<1>. SUFFICES ASSUME IInv, [Next]_coreVars
              PROVE  IInv'
  OBVIOUS
<1>1. CASE Calls
  <2>1. ASSUME NEW t \in Token, NEW r \in Requests, Submit(t, r)
        PROVE  IInv'
    BY <2>1, SubmitStep
  <2>2. ASSUME NEW i \in 1..MaxId, NEW action \in Action, NEW a \in Answers,
               Respond(i, action, a)
        PROVE  IInv'
    BY <2>2, RespondStep
  <2>3. ASSUME NEW sim \in Sims, NEW reason \in {"cancelled", "released"},
               NEW sessions \in {{TRUE}, {FALSE}, BOOLEAN}, EndAgent(sim, sessions, reason)
        PROVE  IInv'
    BY <2>3, EndAgentStep DEF EndReason
  <2>4. ASSUME NEW on \in Timeouts, SetTimeout(on)
        PROVE  IInv'
    BY <2>4, SetTimeoutStep
  <2>5. CASE Free
    BY <2>5, FreeStep
  <2>. QED
    BY <1>1, <2>1, <2>2, <2>3, <2>4, <2>5 DEF Calls
<1>2. CASE Steps
  BY <1>2, EndNextStep, EndDoneStep, SubmitPushStep, ReplyReturnsStep, EventReturnsStep,
     FreeNextStep, FreeDoneStep DEF Steps
<1>3. CASE \E t \in Token : TimerFires(t)
  BY <1>3, TimerFiresStep
<1>4. CASE Stopped \/ UNCHANGED coreVars
  BY <1>4 DEF Stopped, coreVars, IInv, TypeOK, GoodStack, Submitted, ExactlyOneReply,
              TimerOnlyWhilePending, RepliesAccepted
<1>. QED
  BY <1>1, <1>2, <1>3, <1>4 DEF Next

(* The inductive invariant is an invariant.                                *)
THEOREM Invariant == Spec => []IInv
BY InitIInv, NextStep, PTL DEF Spec

-----------------------------------------------------------------------------
(***************************************************************************)
(* What it gives.                                                          *)
(***************************************************************************)
(* The variables keep their types, for any number of requests and any      *)
(* callbacks.                                                              *)
THEOREM TypeCorrect == Spec => []TypeOK
<1>1. IInv => TypeOK
  BY DEF IInv
<1>. QED
  BY <1>1, Invariant, PTL

(* Every call of ofono gets exactly one reply (stkcore.h, stk_reply_fn),   *)
(* even when reply_fn and event_fn submit, answer or end requests          *)
(* themselves, and even after the ids have wrapped.                        *)
THEOREM OneReplyEach == Spec => []ExactlyOneReply
<1>1. IInv => ExactlyOneReply
  BY DEF IInv
<1>. QED
  BY <1>1, Invariant, PTL

(* No timeout source outlives the request it was installed for.            *)
THEOREM NoStaleTimer == Spec => []TimerOnlyWhilePending
<1>1. IInv => TimerOnlyWhilePending
  BY DEF IInv
<1>. QED
  BY <1>1, Invariant, PTL

(* ofono takes every reply, however the request ended.                     *)
THEOREM EveryReplyAccepted == Spec => []RepliesAccepted
<1>1. IInv => RepliesAccepted
  BY DEF IInv
<1>. QED
  BY <1>1, Invariant, PTL
-----------------------------------------------------------------------------
(***************************************************************************)
(* The second invariant: what becomes of a request after its reply.  A     *)
(* frame inside reply_fn or event_fn holds a request that has left the     *)
(* queue and is not yet freed; each has one such frame at most.            *)
(***************************************************************************)
Ends(s) == {i \in DOMAIN s : s[i].op \in {"reply", "ended"}}

EndEvents == {<<"request", r>> : r \in EndReason}

Told ==
  /\ \A i, j \in Ends(stack) : stack[i].tok = stack[j].tok => i = j
  /\ \A i \in Ends(stack) :
       /\ stack[i].tok \notin pending \cup freed
       /\ events[stack[i].tok] \in IF stack[i].op = "reply" THEN {<<"request">>} ELSE EndEvents
  /\ \A t \in Token :
       /\ order[t] = 0 => events[t] = <<>> /\ t \notin freed
       /\ t \in pending => events[t] = <<"request">> /\ t \notin freed
       /\ t \in freed => events[t] \in EndEvents
       /\ order[t] # 0 => t \in pending \cup freed \/ \E i \in Ends(stack) : stack[i].tok = t

(* stk_core_free is entered from the main loop only, so that nothing is    *)
(* below it; a request that was taken but not queued is on the stack.      *)
Control ==
  /\ \A i \in DOMAIN stack : stack[i].op = "free" => i = Len(stack)
  /\ stack # <<>> => alive
  /\ ~alive => pending = {}
  /\ \A t \in Token : req[t] # NoRequest /\ order[t] = 0 =>
       \E i \in DOMAIN stack : stack[i].op = "submit" /\ stack[i].tok = t

(* Ids; and, without callbacks that call back, what a submission still has *)
(* to end before it queues its request.                                    *)
Distinct ==
  /\ \A t \in Token : id[t] = 0 <=> order[t] = 0
  /\ ~wrapped => \A t, u \in Token : id[t] = id[u] /\ id[t] # 0 => t = u
  /\ \A i \in DOMAIN stack : stack[i].op = "ending" => \A t \in stack[i].batch : order[t] # 0

OnePerSim ==
  ~Reentrant =>
    /\ \A i, j \in DOMAIN stack : stack[i].op = "submit" /\ stack[j].op = "submit" => i = j
    /\ ~wrapped =>
         /\ \A t, u \in pending : t # u => req[t].sim # req[u].sim
         /\ \A i \in DOMAIN stack, u \in pending :
              stack[i].op = "submit" /\ req[u].sim = req[stack[i].tok].sim =>
                \E j \in DOMAIN stack : j < i /\ stack[j].op = "ending" /\ u \in stack[j].batch

CoreInv == IInv /\ Told /\ Control /\ Distinct /\ OnePerSim

LEMMA InitCoreInv == Init => CoreInv
BY InitIInv DEF Init, CoreInv, Told, Control, Distinct, OnePerSim, Ends

(* A stack with one more frame on top.                                     *)
LEMMA Pushed ==
  ASSUME NEW f \in Frame, NEW s \in Seq(Frame)
  PROVE  /\ Push(f, s) \in Seq(Frame) /\ Push(f, s) # <<>> /\ Len(Push(f, s)) = Len(s) + 1
         /\ Push(f, s)[1] = f /\ 1 \in DOMAIN Push(f, s)
         /\ \A i \in DOMAIN s : i \in Nat /\ i >= 1 /\ i + 1 \in DOMAIN Push(f, s)
                                /\ Push(f, s)[i + 1] = s[i]
         /\ \A i \in DOMAIN Push(f, s) :
              i = 1 \/ (i \in Nat /\ i - 1 \in DOMAIN s /\ Push(f, s)[i] = s[i - 1])
BY DEF Push

(* Its top frame alone changed, or not even that.                          *)
SameCalls(s) ==
  /\ s \in Seq(Frame) /\ Len(s) = Len(stack)
  /\ \A i \in DOMAIN stack : s[i].op = stack[i].op /\ s[i].tok = stack[i].tok
                             /\ s[i].batch \subseteq stack[i].batch

(* Ending a request, whoever does it.                                      *)
LEMMA EndPendingTells ==
  ASSUME CoreInv, IInv', NEW t \in pending, NEW reply, NEW reason \in EndReason,
         NEW below, SameCalls(below), alive,
         ~wrapped => \A i \in DOMAIN stack : stack[i].batch \ {t} \subseteq below[i].batch,
         end_pending(t, reply, reason, below)
  PROVE  CoreInv'
<1>. USE DEF CoreInv
<1>. DEFINE f == CallFrame("reply", t, reason)
<1>1. /\ pending' = pending \ {t} /\ stack' = Push(f, below)
      /\ UNCHANGED <<alive, req, id, order, count, freed, next_id, wrapped, timeout_on, events>>
  BY DEF end_pending
<1>2. t \in Token /\ order[t] # 0 /\ f \in Frame /\ f.op = "reply" /\ f.tok = t
  BY PendingFacts, CallFrameType DEF FrameOp
<1>. HIDE DEF f
<1>3. /\ stack' \in Seq(Frame) /\ stack' # <<>> /\ Len(stack') = Len(below) + 1
      /\ stack'[1] = f /\ 1 \in DOMAIN stack'
      /\ \A i \in DOMAIN below : i \in Nat /\ i >= 1 /\ i + 1 \in DOMAIN stack'
                                 /\ stack'[i + 1] = below[i]
      /\ \A i \in DOMAIN stack' : i = 1 \/ (i \in Nat /\ i - 1 \in DOMAIN below
                                            /\ stack'[i] = below[i - 1])
  <2>. DEFINE p == Push(f, below)
  <2>1. /\ p \in Seq(Frame) /\ p # <<>> /\ Len(p) = Len(below) + 1 /\ p[1] = f /\ 1 \in DOMAIN p
        /\ \A i \in DOMAIN below : i \in Nat /\ i >= 1 /\ i + 1 \in DOMAIN p /\ p[i + 1] = below[i]
        /\ \A i \in DOMAIN p : i = 1 \/ (i \in Nat /\ i - 1 \in DOMAIN below /\ p[i] = below[i - 1])
    BY <1>2, Pushed DEF SameCalls
  <2>2. stack' = p
    BY <1>1
  <2>. HIDE DEF p
  <2>. QED
    BY <2>1, <2>2
<1>4. DOMAIN below = DOMAIN stack /\ stack \in Seq(Frame)
  BY DEF SameCalls, IInv, TypeOK
<1>5. \A i \in DOMAIN stack' :
        \/ i = 1 /\ stack'[i].op = "reply" /\ stack'[i].tok = t
        \/ /\ i \in Nat /\ i - 1 \in DOMAIN stack /\ stack'[i].op = stack[i - 1].op
           /\ stack'[i].tok = stack[i - 1].tok /\ stack'[i].batch \subseteq stack[i - 1].batch
  BY <1>2, <1>3, <1>4 DEF SameCalls
<1>6. \A i \in DOMAIN stack : /\ i \in Nat /\ i >= 1 /\ i + 1 \in DOMAIN stack'
                              /\ stack'[i + 1].op = stack[i].op /\ stack'[i + 1].tok = stack[i].tok
  BY <1>3, <1>4 DEF SameCalls
<1>7. \A i \in Ends(stack) : stack[i].tok # t
  BY DEF Told
<1>8. Told'
  <2>1. ASSUME NEW i \in Ends(stack'), NEW j \in Ends(stack'), stack'[i].tok = stack'[j].tok
        PROVE  i = j
    <3>1. \A k \in Ends(stack') : k = 1 \/ (k \in Nat /\ k - 1 \in Ends(stack)
                                            /\ stack'[k].tok = stack[k - 1].tok)
      BY <1>5 DEF Ends
    <3>2. \A k \in Ends(stack') : k # 1 => stack'[k].tok # t
      BY <1>7, <3>1
    <3>3. stack'[1].tok = t
      BY <1>2, <1>3
    <3>4. CASE i = 1 \/ j = 1
      BY <2>1, <3>2, <3>3, <3>4
    <3>5. CASE i # 1 /\ j # 1
      <4>1. i - 1 = j - 1 /\ i \in Nat /\ j \in Nat
        BY <2>1, <3>1, <3>5 DEF Told
      <4>. QED
        BY <4>1
    <3>. QED
      BY <3>4, <3>5
  <2>2. ASSUME NEW i \in Ends(stack')
        PROVE  /\ stack'[i].tok \notin pending' \cup freed'
               /\ events'[stack'[i].tok] \in IF stack'[i].op = "reply" THEN {<<"request">>} ELSE EndEvents
    <3>1. CASE i = 1
      BY <1>1, <1>2, <1>3, <3>1 DEF Told
    <3>2. CASE i # 1
      <4>1. i - 1 \in Ends(stack) /\ stack'[i].op = stack[i - 1].op /\ stack'[i].tok = stack[i - 1].tok
        BY <1>5, <3>2 DEF Ends
      <4>. QED
        BY <1>1, <4>1 DEF Told
    <3>. QED
      BY <3>1, <3>2
  <2>3. \A u \in Token : (\E i \in Ends(stack) : stack[i].tok = u)
                           => \E i \in Ends(stack') : stack'[i].tok = u
    BY <1>6 DEF Ends
  <2>4. \E i \in Ends(stack') : stack'[i].tok = t
    BY <1>2, <1>3 DEF Ends
  <2>5. ASSUME NEW u \in Token
        PROVE  /\ order'[u] = 0 => events'[u] = <<>> /\ u \notin freed'
               /\ u \in pending' => events'[u] = <<"request">> /\ u \notin freed'
               /\ u \in freed' => events'[u] \in EndEvents
               /\ order'[u] # 0 => u \in pending' \cup freed'
                                     \/ \E i \in Ends(stack') : stack'[i].tok = u
    <3>1. order[u] # 0 => u \in pending' \cup freed' \/ \E i \in Ends(stack') : stack'[i].tok = u
      BY <1>1, <2>3, <2>4 DEF Told
    <3>. QED
      BY <1>1, <3>1 DEF Told
  <2>. QED
    BY <2>1, <2>2, <2>5 DEF Told
<1>9. Control'
  <2>1. \A i \in DOMAIN stack' : stack'[i].op = "free" => i = Len(stack')
    BY <1>3, <1>4, <1>5 DEF Control, SameCalls
  <2>2. \A u \in Token : req'[u] # NoRequest /\ order'[u] = 0 =>
          \E i \in DOMAIN stack' : stack'[i].op = "submit" /\ stack'[i].tok = u
    BY <1>1, <1>6 DEF Control
  <2>. QED
    BY <1>1, <2>1, <2>2 DEF Control
<1>10. Distinct'
  <2>1. \A i \in DOMAIN stack' : stack'[i].op = "ending" => \A u \in stack'[i].batch : order'[u] # 0
    BY <1>1, <1>5 DEF Distinct
  <2>. QED
    BY <1>1, <2>1 DEF Distinct
<1>11. OnePerSim'
  <2>1. SUFFICES ASSUME ~Reentrant PROVE OnePerSim'
    BY DEF OnePerSim
  <2>2. ASSUME NEW i \in DOMAIN stack', NEW j \in DOMAIN stack',
               stack'[i].op = "submit", stack'[j].op = "submit"
        PROVE  i = j
    <3>1. i - 1 = j - 1 /\ i \in Nat /\ j \in Nat
      BY <1>5, <2>1, <2>2 DEF OnePerSim
    <3>. QED
      BY <3>1
  <2>3. ASSUME ~wrapped', NEW i \in DOMAIN stack', NEW u \in pending',
               stack'[i].op = "submit", req'[u].sim = req'[stack'[i].tok].sim
        PROVE  \E j \in DOMAIN stack' : j < i /\ stack'[j].op = "ending" /\ u \in stack'[j].batch
    <3>1. /\ i \in Nat /\ i - 1 \in DOMAIN stack /\ stack[i - 1].op = "submit"
          /\ stack'[i].tok = stack[i - 1].tok
      BY <1>5, <2>3
    <3>2. PICK j \in DOMAIN stack : j < i - 1 /\ stack[j].op = "ending" /\ u \in stack[j].batch
      BY <1>1, <2>1, <2>3, <3>1 DEF OnePerSim
    <3>3. u \in below[j].batch
      BY <1>1, <2>3, <3>2
    <3>4. j \in Nat /\ j + 1 \in DOMAIN stack' /\ stack'[j + 1] = below[j] /\ below[j].op = "ending"
      BY <1>3, <1>4, <3>2 DEF SameCalls
    <3>5. j + 1 < i
      BY <3>1, <3>2, <3>4
    <3>. QED
      BY <3>3, <3>4, <3>5
  <2>4. ~wrapped' => \A u, v \in pending' : u # v => req'[u].sim # req'[v].sim
    BY <1>1, <2>1 DEF OnePerSim
  <2>. QED
    BY <2>2, <2>3, <2>4 DEF OnePerSim
<1>. QED
  BY <1>8, <1>9, <1>10, <1>11

(* With the ids still unique the lookup finds the request itself.          *)
LEMMA FoundIsSame ==
  ASSUME CoreInv, ~wrapped, NEW t \in Token, order[t] # 0
  PROVE  /\ \A p \in find_pending(id[t]) : p = t
         /\ t \in pending => t \in find_pending(id[t])
<1>1. id[t] # 0 /\ \A u \in Token : id[u] = id[t] => u = t
  BY DEF CoreInv, Distinct
<1>2. pending \subseteq Token /\ order \in [Token -> Nat]
  BY DEF CoreInv, IInv, TypeOK
<1>3. order[t] \in Nat
  BY <1>2
<1>. QED
  BY <1>1, <1>2, <1>3 DEF find_pending, Oldest

(* Steps that leave the queue alone.  A frame that holds no request comes  *)
(* on top ...                                                              *)
LEMMA PushCore ==
  ASSUME CoreInv, IInv', NEW f \in Frame, f.op \in {"ending", "free"}, alive,
         f.op = "free" => stack = <<>>,
         f.op = "ending" => \A t \in f.batch : order[t] # 0,
         stack' = Push(f, stack),
         UNCHANGED <<alive, pending, req, id, order, freed, wrapped, events>>
  PROVE  CoreInv'
<1>. USE DEF CoreInv
<1>0. stack \in Seq(Frame)
  BY DEF IInv, TypeOK
<1>1. /\ stack' \in Seq(Frame) /\ stack' # <<>> /\ Len(stack') = Len(stack) + 1
      /\ stack'[1] = f /\ 1 \in DOMAIN stack'
      /\ \A i \in DOMAIN stack : i \in Nat /\ i >= 1 /\ i + 1 \in DOMAIN stack'
                                 /\ stack'[i + 1] = stack[i]
      /\ \A i \in DOMAIN stack' : i = 1 \/ (i \in Nat /\ i - 1 \in DOMAIN stack
                                            /\ stack'[i] = stack[i - 1])
  <2>. DEFINE p == Push(f, stack)
  <2>1. /\ p \in Seq(Frame) /\ p # <<>> /\ Len(p) = Len(stack) + 1 /\ p[1] = f /\ 1 \in DOMAIN p
        /\ \A i \in DOMAIN stack : i \in Nat /\ i >= 1 /\ i + 1 \in DOMAIN p /\ p[i + 1] = stack[i]
        /\ \A i \in DOMAIN p : i = 1 \/ (i \in Nat /\ i - 1 \in DOMAIN stack /\ p[i] = stack[i - 1])
    BY <1>0, Pushed
  <2>2. stack' = p
    OBVIOUS
  <2>. HIDE DEF p
  <2>. QED
    BY <2>1, <2>2
<1>2. /\ \A i \in Ends(stack') : i \in Nat /\ i - 1 \in Ends(stack) /\ stack'[i] = stack[i - 1]
      /\ \A i \in Ends(stack) : i + 1 \in Ends(stack') /\ stack'[i + 1] = stack[i]
  BY <1>1 DEF Ends
<1>3. Told'
  <2>1. ASSUME NEW i \in Ends(stack'), NEW j \in Ends(stack'), stack'[i].tok = stack'[j].tok
        PROVE  i = j
    <3>1. i - 1 = j - 1 /\ i \in Nat /\ j \in Nat
      BY <1>2, <2>1 DEF Told
    <3>. QED
      BY <3>1
  <2>2. \A i \in Ends(stack') :
          /\ stack'[i].tok \notin pending' \cup freed'
          /\ events'[stack'[i].tok] \in IF stack'[i].op = "reply" THEN {<<"request">>} ELSE EndEvents
    BY <1>2 DEF Told
  <2>3. \A u \in Token : (\E i \in Ends(stack) : stack[i].tok = u)
                           => \E i \in Ends(stack') : stack'[i].tok = u
    BY <1>2
  <2>4. \A u \in Token :
          /\ order'[u] = 0 => events'[u] = <<>> /\ u \notin freed'
          /\ u \in pending' => events'[u] = <<"request">> /\ u \notin freed'
          /\ u \in freed' => events'[u] \in EndEvents
          /\ order'[u] # 0 => u \in pending' \cup freed' \/ \E i \in Ends(stack') : stack'[i].tok = u
    BY <2>3 DEF Told
  <2>. QED
    BY <2>1, <2>2, <2>4 DEF Told
<1>4. Control'
  <2>1. \A i \in DOMAIN stack' : stack'[i].op = "free" => i = Len(stack')
    <3>1. \A i \in DOMAIN stack' : i # 1 /\ stack'[i].op = "free" => i = Len(stack')
      BY <1>0, <1>1 DEF Control
    <3>2. f.op = "free" => Len(stack') = 1
      BY <1>1
    <3>. QED
      BY <1>1, <3>1, <3>2
  <2>2. \A u \in Token : req'[u] # NoRequest /\ order'[u] = 0 =>
          \E i \in DOMAIN stack' : stack'[i].op = "submit" /\ stack'[i].tok = u
    BY <1>1 DEF Control
  <2>. QED
    BY <2>1, <2>2 DEF Control
<1>5. Distinct'
  BY <1>1 DEF Distinct
<1>6. OnePerSim'
  <2>1. SUFFICES ASSUME ~Reentrant PROVE OnePerSim'
    BY DEF OnePerSim
  <2>2. \A i \in DOMAIN stack' : stack'[i].op = "submit" =>
          i \in Nat /\ i - 1 \in DOMAIN stack /\ stack'[i] = stack[i - 1]
    BY <1>1
  <2>3. ASSUME NEW i \in DOMAIN stack', NEW j \in DOMAIN stack',
               stack'[i].op = "submit", stack'[j].op = "submit"
        PROVE  i = j
    <3>1. i - 1 = j - 1 /\ i \in Nat /\ j \in Nat
      BY <2>1, <2>2, <2>3 DEF OnePerSim
    <3>. QED
      BY <3>1
  <2>4. ASSUME ~wrapped', NEW i \in DOMAIN stack', NEW u \in pending',
               stack'[i].op = "submit", req'[u].sim = req'[stack'[i].tok].sim
        PROVE  \E j \in DOMAIN stack' : j < i /\ stack'[j].op = "ending" /\ u \in stack'[j].batch
    <3>1. i \in Nat /\ i - 1 \in DOMAIN stack /\ stack'[i] = stack[i - 1]
      BY <2>2, <2>4
    <3>2. PICK j \in DOMAIN stack : j < i - 1 /\ stack[j].op = "ending" /\ u \in stack[j].batch
      BY <2>1, <2>4, <3>1 DEF OnePerSim
    <3>3. j \in Nat /\ j + 1 \in DOMAIN stack' /\ stack'[j + 1] = stack[j] /\ j + 1 < i
      BY <1>1, <3>1, <3>2
    <3>. QED
      BY <3>2, <3>3
  <2>. QED
    BY <2>1, <2>3, <2>4 DEF OnePerSim
<1>. QED
  BY <1>3, <1>4, <1>5, <1>6

(* ... or the top one goes, which held no request to queue, and no longer  *)
(* one to end.                                                             *)
LEMMA PopCore ==
  ASSUME CoreInv, IInv', stack # <<>>, stack' = Tail(stack),
         Head(stack).op \notin {"reply", "submit"},
         Head(stack).op = "ending" => Head(stack).batch = {},
         freed' = IF Head(stack).op = "ended" THEN freed \cup {Head(stack).tok} ELSE freed,
         alive' = (alive /\ Head(stack).op # "free"), Head(stack).op = "free" => pending = {},
         UNCHANGED <<pending, req, id, order, wrapped, events>>
  PROVE  CoreInv'
<1>. USE DEF CoreInv
<1>1. /\ stack \in Seq(Frame) /\ Len(stack) \in Nat /\ Len(stack') = Len(stack) - 1
      /\ 1 \in DOMAIN stack /\ stack[1] = Head(stack)
      /\ \A i \in DOMAIN stack' : i \in Nat /\ i >= 1 /\ i + 1 \in DOMAIN stack
                                  /\ stack'[i] = stack[i + 1]
      /\ \A i \in DOMAIN stack : i = 1 \/ (i \in Nat /\ i - 1 \in DOMAIN stack'
                                           /\ stack'[i - 1] = stack[i])
  <2>1. stack \in Seq(Frame)
    BY DEF IInv, TypeOK
  <2>. QED
    BY <2>1
<1>2. \A i \in Ends(stack') : i \in Nat /\ i >= 1 /\ i + 1 \in Ends(stack) /\ stack'[i] = stack[i + 1]
  BY <1>1 DEF Ends
<1>3. Told'
  <2>1. ASSUME NEW i \in Ends(stack'), NEW j \in Ends(stack'), stack'[i].tok = stack'[j].tok
        PROVE  i = j
    <3>1. /\ i \in Nat /\ i + 1 \in Ends(stack) /\ j \in Nat /\ j + 1 \in Ends(stack)
          /\ stack[i + 1].tok = stack[j + 1].tok
      BY <1>2, <2>1
    <3>2. i + 1 = j + 1
      BY <3>1, SMTT(30) DEF Told
    <3>. QED
      BY <3>1, <3>2
  <2>2. ASSUME NEW i \in Ends(stack'), Head(stack).op = "ended"
        PROVE  stack'[i].tok # Head(stack).tok
    <3>1. 1 \in Ends(stack) /\ stack[1] = Head(stack)
      BY <1>1, <2>2 DEF Ends
    <3>2. i \in Nat /\ i >= 1 /\ i + 1 \in Ends(stack) /\ stack'[i] = stack[i + 1]
      BY <1>2, Zenon
    <3>3. i + 1 # 1
      BY <3>2
    <3>4. stack[i + 1].tok # stack[1].tok
      BY <3>1, <3>2, <3>3, Zenon DEF Told
    <3>. QED
      BY <3>1, <3>2, <3>4
  <2>3. ASSUME NEW i \in Ends(stack')
        PROVE  /\ stack'[i].tok \notin pending' \cup freed'
               /\ events'[stack'[i].tok]
                    \in IF stack'[i].op = "reply" THEN {<<"request">>} ELSE EndEvents
    <3>1. i + 1 \in Ends(stack) /\ stack'[i] = stack[i + 1]
      BY <1>2
    <3>2. /\ stack[i + 1].tok \notin pending \cup freed
          /\ events[stack[i + 1].tok]
               \in IF stack[i + 1].op = "reply" THEN {<<"request">>} ELSE EndEvents
      BY <3>1, Zenon DEF Told
    <3>. QED
      BY <2>2, <3>1, <3>2
  <2>4. Head(stack).op = "ended" =>
          /\ Head(stack).tok \notin pending /\ events[Head(stack).tok] \in EndEvents
          /\ Head(stack).tok \in Token /\ order[Head(stack).tok] # 0
    BY <1>1 DEF Told, Ends, IInv, GoodStack, AboutRequest
  <2>5. ASSUME NEW u \in Token, order[u] # 0
        PROVE  u \in pending' \cup freed' \/ \E i \in Ends(stack') : stack'[i].tok = u
    <3>1. CASE \E i \in Ends(stack) : stack[i].tok = u
      <4>1. PICK i \in Ends(stack) : stack[i].tok = u
        BY <3>1
      <4>2. CASE i = 1
        BY <1>1, <4>1, <4>2 DEF Ends
      <4>3. CASE i # 1
        <5>1. i - 1 \in Ends(stack') /\ stack'[i - 1].tok = u
          BY <1>1, <4>1, <4>3 DEF Ends
        <5>. QED
          BY <5>1
      <4>. QED
        BY <4>2, <4>3
    <3>2. CASE ~ \E i \in Ends(stack) : stack[i].tok = u
      BY <2>5, <3>2 DEF Told
    <3>. QED
      BY <3>1, <3>2
  <2>6. \A u \in Token :
          /\ order'[u] = 0 => events'[u] = <<>> /\ u \notin freed'
          /\ u \in pending' => events'[u] = <<"request">> /\ u \notin freed'
          /\ u \in freed' => events'[u] \in EndEvents
          /\ order'[u] # 0 => u \in pending' \cup freed' \/ \E i \in Ends(stack') : stack'[i].tok = u
    BY <2>4, <2>5 DEF Told
  <2>. QED
    BY <2>1, <2>3, <2>6 DEF Told
<1>4. Control'
  <2>1. \A i \in DOMAIN stack' : stack'[i].op = "free" => i = Len(stack')
    BY <1>1 DEF Control
  <2>2. ASSUME NEW u \in Token, req'[u] # NoRequest, order'[u] = 0
        PROVE  \E i \in DOMAIN stack' : stack'[i].op = "submit" /\ stack'[i].tok = u
    <3>1. PICK i \in DOMAIN stack : stack[i].op = "submit" /\ stack[i].tok = u
      BY <2>2 DEF Control
    <3>2. i # 1
      BY <1>1, <3>1
    <3>3. i - 1 \in DOMAIN stack' /\ stack'[i - 1] = stack[i]
      BY <1>1, <3>2
    <3>. QED
      BY <3>1, <3>3
  <2>3. Head(stack).op = "free" => stack' = <<>>
    <3>1. Head(stack).op = "free" => Len(stack) = 1
      BY <1>1 DEF Control
    <3>. QED
      BY <1>1, <3>1
  <2>4. stack' # <<>> => alive'
    BY <2>3 DEF Control
  <2>5. ~alive' => pending' = {}
    BY DEF Control
  <2>. QED
    BY <2>1, <2>2, <2>4, <2>5 DEF Control
<1>5. Distinct'
  BY <1>1 DEF Distinct
<1>6. OnePerSim'
  <2>1. SUFFICES ASSUME ~Reentrant PROVE OnePerSim'
    BY DEF OnePerSim
  <2>2. ASSUME NEW i \in DOMAIN stack', NEW j \in DOMAIN stack',
               stack'[i].op = "submit", stack'[j].op = "submit"
        PROVE  i = j
    <3>1. i + 1 = j + 1 /\ i \in Nat /\ j \in Nat
      BY <1>1, <2>1, <2>2 DEF OnePerSim
    <3>. QED
      BY <3>1
  <2>3. ASSUME ~wrapped', NEW i \in DOMAIN stack', NEW u \in pending',
               stack'[i].op = "submit", req'[u].sim = req'[stack'[i].tok].sim
        PROVE  \E j \in DOMAIN stack' : j < i /\ stack'[j].op = "ending" /\ u \in stack'[j].batch
    <3>1. i \in Nat /\ i + 1 \in DOMAIN stack /\ stack'[i] = stack[i + 1]
      BY <1>1
    <3>2. PICK j \in DOMAIN stack : j < i + 1 /\ stack[j].op = "ending" /\ u \in stack[j].batch
      BY <2>1, <2>3, <3>1 DEF OnePerSim
    <3>3. j # 1
      BY <1>1, <3>2
    <3>4. j \in Nat /\ j - 1 \in DOMAIN stack' /\ stack'[j - 1] = stack[j] /\ j - 1 < i
      BY <1>1, <3>1, <3>2, <3>3
    <3>. QED
      BY <3>2, <3>4
  <2>. QED
    BY <2>1, <2>2, <2>3 DEF OnePerSim
<1>. QED
  BY <1>3, <1>4, <1>5, <1>6

(* A submission puts its loop on top of what it has to do afterwards; the  *)
(* loop holds every request that waits for the same SIM.                   *)
LEMMA SubmitCore ==
  ASSUME CoreInv, IInv', NEW t \in Token, NEW r \in Requests, Submit(t, r)
  PROVE  CoreInv'
<1>. USE DEF CoreInv
<1>. DEFINE f == LoopFrame(Matching(r.sim, BOOLEAN), "superseded")
            g == CallFrame("submit", t, "answered")
<1>1. /\ alive /\ req[t] = NoRequest /\ stack' = Push(f, Push(g, stack))
      /\ req' = [req EXCEPT ![t] = r]
      /\ UNCHANGED <<alive, pending, id, order, freed, wrapped, events>>
  BY DEF Submit, CallerRuns
<1>2. /\ f \in Frame /\ f.op = "ending" /\ f.batch = Matching(r.sim, BOOLEAN)
      /\ g \in Frame /\ g.op = "submit" /\ g.tok = t
  <2>1. Matching(r.sim, BOOLEAN) \subseteq Token
    BY DEF Matching, IInv, TypeOK
  <2>2. f \in Frame /\ f.op = "ending"
    BY <2>1, LoopFrameType DEF EndReason
  <2>3. g \in Frame /\ g.op = "submit" /\ g.tok = t
    BY CallFrameType DEF FrameOp, EndReason
  <2>4. f.batch = Matching(r.sim, BOOLEAN)
    BY DEF LoopFrame
  <2>. QED
    BY <2>2, <2>3, <2>4
<1>. HIDE DEF f, g
<1>3. /\ stack \in Seq(Frame) /\ pending \subseteq Token /\ order[t] = 0 /\ t \notin pending
      /\ \A u \in pending : order[u] # 0
      /\ \A u \in pending : req[u] # NoRequest /\ req'[u] = req[u] /\ req[u].session \in BOOLEAN
      /\ \A u \in Token : u # t => req'[u] = req[u]
      /\ req'[t] = r
  <2>1. stack \in Seq(Frame) /\ pending \subseteq Token /\ order[t] = 0 /\ t \notin pending
        /\ \A u \in Token : u # t => req'[u] = req[u]
    BY <1>1, PendingFacts DEF IInv, TypeOK, Submitted
  <2>2. req'[t] = r
    BY <1>1 DEF IInv, TypeOK
  <2>3. ASSUME NEW u \in pending
        PROVE  order[u] # 0 /\ req[u] # NoRequest /\ req[u].session \in BOOLEAN
    <3>1. order[u] # 0 /\ req[u] \in Requests /\ req[u] \in AnyRequest
      BY PendingFacts
    <3>. QED
      BY <3>1, StkCoreAssumption DEF AnyRequest
  <2>. QED
    BY <2>1, <2>2, <2>3
<1>4. /\ stack' \in Seq(Frame) /\ stack' # <<>> /\ Len(stack') = Len(stack) + 2
      /\ stack'[1] = f /\ 1 \in DOMAIN stack' /\ stack'[2] = g /\ 2 \in DOMAIN stack'
      /\ \A i \in DOMAIN stack : i \in Nat /\ i >= 1 /\ i + 2 \in DOMAIN stack'
                                 /\ stack'[i + 2] = stack[i]
      /\ \A i \in DOMAIN stack' : i \in {1, 2} \/ (i \in Nat /\ i - 2 \in DOMAIN stack
                                                   /\ stack'[i] = stack[i - 2])
  <2>. DEFINE p == Push(f, Push(g, stack))
  <2>1. /\ p \in Seq(Frame) /\ p # <<>> /\ Len(p) = Len(stack) + 2
        /\ p[1] = f /\ 1 \in DOMAIN p /\ p[2] = g /\ 2 \in DOMAIN p
        /\ \A i \in DOMAIN stack : i \in Nat /\ i >= 1 /\ i + 2 \in DOMAIN p /\ p[i + 2] = stack[i]
        /\ \A i \in DOMAIN p : i \in {1, 2} \/ (i \in Nat /\ i - 2 \in DOMAIN stack
                                                /\ p[i] = stack[i - 2])
    BY <1>2, <1>3 DEF Push
  <2>2. stack' = p
    BY <1>1
  <2>. HIDE DEF p
  <2>. QED
    BY <2>1, <2>2
<1>5. /\ \A i \in Ends(stack') : i \in Nat /\ i - 2 \in Ends(stack) /\ stack'[i] = stack[i - 2]
      /\ \A i \in Ends(stack) : i + 2 \in Ends(stack') /\ stack'[i + 2] = stack[i]
  BY <1>2, <1>4 DEF Ends
<1>6. Told'
  <2>1. ASSUME NEW i \in Ends(stack'), NEW j \in Ends(stack'), stack'[i].tok = stack'[j].tok
        PROVE  i = j
    <3>1. /\ i \in Nat /\ i - 2 \in Ends(stack) /\ j \in Nat /\ j - 2 \in Ends(stack)
          /\ stack[i - 2].tok = stack[j - 2].tok
      BY <1>5, <2>1
    <3>2. i - 2 = j - 2
      BY <3>1 DEF Told
    <3>. QED
      BY <3>1, <3>2
  <2>2. \A i \in Ends(stack') :
          /\ stack'[i].tok \notin pending' \cup freed'
          /\ events'[stack'[i].tok] \in IF stack'[i].op = "reply" THEN {<<"request">>} ELSE EndEvents
    BY <1>1, <1>5 DEF Told
  <2>3. \A u \in Token : (\E i \in Ends(stack) : stack[i].tok = u)
                           => \E i \in Ends(stack') : stack'[i].tok = u
    BY <1>5
  <2>4. \A u \in Token :
          /\ order'[u] = 0 => events'[u] = <<>> /\ u \notin freed'
          /\ u \in pending' => events'[u] = <<"request">> /\ u \notin freed'
          /\ u \in freed' => events'[u] \in EndEvents
          /\ order'[u] # 0 => u \in pending' \cup freed' \/ \E i \in Ends(stack') : stack'[i].tok = u
    BY <1>1, <2>3 DEF Told
  <2>. QED
    BY <2>1, <2>2, <2>4 DEF Told
<1>7. Control'
  <2>1. ASSUME NEW i \in DOMAIN stack', stack'[i].op = "free"
        PROVE  i = Len(stack')
    <3>1. i \in Nat /\ i - 2 \in DOMAIN stack /\ stack[i - 2].op = "free"
      BY <1>2, <1>4, <2>1
    <3>2. i - 2 = Len(stack)
      BY <3>1 DEF Control
    <3>. QED
      BY <1>3, <1>4, <3>1, <3>2
  <2>2. \A u \in Token : req'[u] # NoRequest /\ order'[u] = 0 =>
          \E i \in DOMAIN stack' : stack'[i].op = "submit" /\ stack'[i].tok = u
    <3>1. \A u \in Token : u # t /\ req'[u] # NoRequest /\ order'[u] = 0 =>
            \E i \in DOMAIN stack : stack[i].op = "submit" /\ stack[i].tok = u
      BY <1>1, <1>3 DEF Control
    <3>. QED
      BY <1>2, <1>4, <3>1
  <2>. QED
    BY <1>1, <2>1, <2>2 DEF Control
<1>8. Distinct'
  <2>1. \A i \in DOMAIN stack' : stack'[i].op = "ending" => \A u \in stack'[i].batch : order'[u] # 0
    <3>1. \A u \in f.batch : order'[u] # 0
      BY <1>1, <1>2, <1>3 DEF Matching
    <3>2. \A i \in DOMAIN stack : stack[i].op = "ending" => \A u \in stack[i].batch : order'[u] # 0
      BY <1>1 DEF Distinct
    <3>. QED
      BY <1>2, <1>4, <3>1, <3>2
  <2>. QED
    BY <1>1, <2>1 DEF Distinct
<1>9. OnePerSim'
  <2>1. SUFFICES ASSUME ~Reentrant PROVE OnePerSim'
    BY DEF OnePerSim
  <2>2. stack = <<>>
    BY <2>1 DEF Submit, CallerRuns
  <2>3. \A i \in DOMAIN stack' : stack'[i].op = "submit" => i = 2
    BY <1>2, <1>4, <2>2
  <2>4. ~wrapped' => \A u, v \in pending' : u # v => req'[u].sim # req'[v].sim
    BY <1>1, <1>3, <2>1 DEF OnePerSim
  <2>5. ASSUME NEW i \in DOMAIN stack', NEW u \in pending',
               stack'[i].op = "submit", req'[u].sim = req'[stack'[i].tok].sim
        PROVE  \E j \in DOMAIN stack' : j < i /\ stack'[j].op = "ending" /\ u \in stack'[j].batch
    <3>1. i = 2 /\ req[u].sim = r.sim /\ u \in pending
      BY <1>1, <1>2, <1>3, <1>4, <2>3, <2>5
    <3>2. u \in f.batch
      BY <1>2, <1>3, <3>1 DEF Matching, matches_agent
    <3>. QED
      BY <1>2, <1>4, <3>1, <3>2
  <2>. QED
    BY <2>3, <2>4, <2>5 DEF OnePerSim
<1>. QED
  BY <1>6, <1>7, <1>8, <1>9

(* A loop that drops a request which no longer waits.                      *)
LEMMA SkipCore ==
  ASSUME CoreInv, IInv', NEW t \in Token, ~wrapped => t \notin pending,
         SameCalls(stack'),
         \A i \in DOMAIN stack : stack[i].batch \ {t} \subseteq stack'[i].batch,
         UNCHANGED <<alive, pending, req, id, order, freed, wrapped, events>>
  PROVE  CoreInv'
<1>. USE DEF CoreInv
<1>1. DOMAIN stack' = DOMAIN stack /\ Len(stack') = Len(stack) /\ stack \in Seq(Frame)
      /\ (stack' = <<>> <=> stack = <<>>)
  BY DEF SameCalls, IInv, TypeOK
<1>2. \A i \in DOMAIN stack : /\ stack'[i].op = stack[i].op /\ stack'[i].tok = stack[i].tok
                              /\ stack'[i].batch \subseteq stack[i].batch
  BY DEF SameCalls
<1>3. Ends(stack') = Ends(stack) /\ \A i \in Ends(stack) : i \in DOMAIN stack
  BY <1>1, <1>2 DEF Ends
<1>4. Told'
  <2>1. \A i, j \in Ends(stack) : stack'[i].tok = stack'[j].tok => i = j
    BY <1>2, <1>3 DEF Told
  <2>2. \A i \in Ends(stack) :
          /\ stack'[i].tok \notin pending \cup freed
          /\ events[stack'[i].tok] \in IF stack'[i].op = "reply" THEN {<<"request">>} ELSE EndEvents
    BY <1>2, <1>3 DEF Told
  <2>3. \A u \in Token : (\E i \in Ends(stack) : stack[i].tok = u)
                           => \E i \in Ends(stack) : stack'[i].tok = u
    BY <1>2, <1>3
  <2>4. \A u \in Token :
          /\ order'[u] = 0 => events'[u] = <<>> /\ u \notin freed'
          /\ u \in pending' => events'[u] = <<"request">> /\ u \notin freed'
          /\ u \in freed' => events'[u] \in EndEvents
          /\ order'[u] # 0 => u \in pending' \cup freed' \/ \E i \in Ends(stack) : stack'[i].tok = u
    BY <2>3 DEF Told
  <2>. QED
    BY <1>3, <2>1, <2>2, <2>4 DEF Told
<1>5. Control'
  <2>1. \A i \in DOMAIN stack' : stack'[i].op = "free" => i = Len(stack')
    BY <1>1, <1>2 DEF Control
  <2>2. \A u \in Token : req'[u] # NoRequest /\ order'[u] = 0 =>
          \E i \in DOMAIN stack' : stack'[i].op = "submit" /\ stack'[i].tok = u
    BY <1>1, <1>2 DEF Control
  <2>. QED
    BY <1>1, <2>1, <2>2 DEF Control
<1>6. Distinct'
  <2>1. \A i \in DOMAIN stack' : stack'[i].op = "ending" => \A u \in stack'[i].batch : order'[u] # 0
    BY <1>1, <1>2 DEF Distinct
  <2>. QED
    BY <2>1 DEF Distinct
<1>7. OnePerSim'
  <2>1. SUFFICES ASSUME ~Reentrant PROVE OnePerSim'
    BY DEF OnePerSim
  <2>2. \A i, j \in DOMAIN stack' : stack'[i].op = "submit" /\ stack'[j].op = "submit" => i = j
    BY <1>1, <1>2, <2>1 DEF OnePerSim
  <2>3. ASSUME ~wrapped', NEW i \in DOMAIN stack', NEW u \in pending',
               stack'[i].op = "submit", req'[u].sim = req'[stack'[i].tok].sim
        PROVE  \E j \in DOMAIN stack' : j < i /\ stack'[j].op = "ending" /\ u \in stack'[j].batch
    <3>1. i \in DOMAIN stack /\ stack[i].op = "submit" /\ stack'[i].tok = stack[i].tok /\ u # t
      BY <1>1, <1>2, <2>3
    <3>2. PICK j \in DOMAIN stack : j < i /\ stack[j].op = "ending" /\ u \in stack[j].batch
      BY <2>1, <2>3, <3>1 DEF OnePerSim
    <3>. QED
      BY <1>1, <1>2, <3>1, <3>2
  <2>4. ~wrapped' => \A u, v \in pending' : u # v => req'[u].sim # req'[v].sim
    BY <2>1 DEF OnePerSim
  <2>. QED
    BY <2>2, <2>3, <2>4 DEF OnePerSim
<1>. QED
  BY <1>4, <1>5, <1>6, <1>7

(* The calls that end one request, or start or stop ending many.           *)
LEMMA SameStack ==
  ASSUME CoreInv
  PROVE  SameCalls(stack)
BY DEF CoreInv, IInv, TypeOK, SameCalls

LEMMA FallbackCore ==
  ASSUME CoreInv, IInv', NEW t \in pending, NEW reason \in EndReason, alive,
         end_with_fallback(t, reason, stack)
  PROVE  CoreInv'
BY SameStack, EndPendingTells DEF end_with_fallback

LEMMA CallsCore ==
  ASSUME CoreInv, IInv', Calls \/ \E t \in Token : TimerFires(t)
  PROVE  CoreInv'
<1>1. ASSUME NEW t \in Token, NEW r \in Requests, Submit(t, r)
      PROVE  CoreInv'
  BY <1>1, SubmitCore
<1>2. ASSUME NEW i \in 1..MaxId, NEW action \in Action, NEW a \in Answers, Respond(i, action, a)
      PROVE  CoreInv'
  <2>1. PICK t \in find_pending(i) : \E reply \in respond_reply(req[t], action, a) :
                                       end_pending(t, reply, "answered", stack)
    BY <1>2 DEF Respond
  <2>2. PICK reply \in respond_reply(req[t], action, a) : end_pending(t, reply, "answered", stack)
    BY <2>1
  <2>3. t \in pending /\ alive
    BY <1>2, <2>1 DEF find_pending, Oldest, Respond, CallerRuns
  <2>. QED
    BY <2>2, <2>3, SameStack, EndPendingTells DEF EndReason
<1>3. ASSUME NEW sim \in Sims, NEW reason \in {"cancelled", "released"},
             NEW sessions \in {{TRUE}, {FALSE}, BOOLEAN}, EndAgent(sim, sessions, reason)
      PROVE  CoreInv'
  <2>. DEFINE f == LoopFrame(Matching(sim, sessions), reason)
  <2>1. /\ f \in Frame /\ f.op = "ending" /\ f.batch \subseteq pending
    BY LoopFrameType DEF LoopFrame, EndReason, Matching, CoreInv, IInv, TypeOK
  <2>2. /\ alive /\ stack' = Push(f, stack)
        /\ UNCHANGED <<alive, pending, req, id, order, freed, wrapped, events>>
    BY <1>3 DEF EndAgent, CallerRuns
  <2>. HIDE DEF f
  <2>3. \A t \in f.batch : order[t] # 0
    BY <2>1, PendingFacts DEF CoreInv
  <2>. QED
    BY <2>1, <2>2, <2>3, PushCore
<1>4. ASSUME NEW on \in Timeouts, SetTimeout(on)
      PROVE  CoreInv'
  BY <1>4 DEF SetTimeout, CoreInv, Told, Control, Distinct, OnePerSim, Ends
<1>5. CASE Free
  <2>. DEFINE f == CallFrame("free", NoToken, "shutdown")
  <2>1. f \in Frame /\ f.op = "free"
    BY CallFrameType DEF FrameOp, EndReason
  <2>2. /\ alive /\ stack = <<>> /\ stack' = Push(f, stack)
        /\ UNCHANGED <<alive, pending, req, id, order, freed, wrapped, events>>
    BY <1>5 DEF Free, Push
  <2>. HIDE DEF f
  <2>. QED
    BY <2>1, <2>2, PushCore
<1>6. ASSUME NEW t \in Token, TimerFires(t)
      PROVE  CoreInv'
  <2>1. t \in pending /\ alive
    BY <1>6 DEF TimerFires, CoreInv, IInv, TimerOnlyWhilePending, Control
  <2>. QED
    BY <1>6, <2>1, FallbackCore DEF TimerFires, EndReason
<1>. QED
  BY <1>1, <1>2, <1>3, <1>4, <1>5, <1>6 DEF Calls

(* The turns of end_matching's loop.                                       *)
LEMMA EndNextCore ==
  ASSUME CoreInv, IInv', EndNext
  PROVE  CoreInv'
<1>1. /\ stack # <<>> /\ stack \in Seq(Frame) /\ 1 \in DOMAIN stack /\ stack[1] = Head(stack)
      /\ Head(stack) \in Frame /\ Head(stack).op = "ending" /\ alive
  <2>1. stack \in Seq(Frame) /\ stack # <<>> /\ Head(stack).op = "ending"
    BY DEF EndNext, Running, CoreInv, IInv, TypeOK
  <2>2. alive
    BY <2>1 DEF CoreInv, Control
  <2>. QED
    BY <2>1, <2>2, TailSeq
<1>2. PICK t \in Oldest(Head(stack).batch) :
        LET rest == Push([Head(stack) EXCEPT !.batch = @ \ {t}], Tail(stack))
        IN  IF find_pending(id[t]) = {}
            THEN /\ stack' = rest
                 /\ UNCHANGED <<alive, pending, req, id, order, count, timer, freed, next_id,
                                wrapped, timeout_on, sent, events>>
            ELSE \E p \in find_pending(id[t]) : end_with_fallback(p, Head(stack).reason, rest)
  BY DEF EndNext
<1>. DEFINE f == [Head(stack) EXCEPT !.batch = @ \ {t}]
            rest == Push(f, Tail(stack))
<1>3. f \in Frame /\ f.op = "ending" /\ Head(stack).reason \in EndReason
      /\ f.tok = Head(stack).tok /\ f.batch = Head(stack).batch \ {t}
  BY <1>1 DEF Frame
<1>4. t \in Token /\ order[t] # 0 /\ t \in Head(stack).batch
  <2>1. t \in Head(stack).batch
    BY <1>2 DEF Oldest
  <2>2. t \in Token
    BY <1>1, <2>1 DEF Frame
  <2>3. order[t] # 0
    BY <1>1, <2>1 DEF CoreInv, Distinct
  <2>. QED
    BY <2>1, <2>2, <2>3
<1>5. /\ rest \in Seq(Frame) /\ Len(rest) = Len(stack) /\ DOMAIN rest = DOMAIN stack
      /\ rest[1] = f /\ \A i \in DOMAIN stack : i # 1 => rest[i] = stack[i]
  <2>. HIDE DEF f
  <2>. QED
    BY <1>1, <1>3 DEF Push
<1>6. CASE find_pending(id[t]) = {}
  <2>1. /\ stack' = rest
        /\ UNCHANGED <<alive, pending, req, id, order, count, timer, freed, next_id,
                       wrapped, timeout_on, sent, events>>
    BY <1>2, <1>6
  <2>. HIDE DEF f, rest
  <2>2. ~wrapped => t \notin pending
    BY <1>4, <1>6, FoundIsSame
  <2>. QED
    <3>1. SameCalls(stack')
      BY <1>1, <1>3, <1>5, <2>1 DEF SameCalls
    <3>2. \A i \in DOMAIN stack : stack[i].batch \ {t} \subseteq stack'[i].batch
      BY <1>1, <1>3, <1>5, <2>1
    <3>. QED
      BY <1>4, <2>1, <2>2, <3>1, <3>2, SkipCore
<1>7. CASE find_pending(id[t]) # {}
  <2>1. PICK p \in find_pending(id[t]) : end_with_fallback(p, Head(stack).reason, rest)
    BY <1>2, <1>7
  <2>. HIDE DEF f, rest
  <2>2. p \in pending /\ (~wrapped => p = t)
    BY <1>4, <2>1, FoundIsSame DEF find_pending, Oldest
  <2>3. SameCalls(rest)
    BY <1>1, <1>3, <1>5 DEF SameCalls
  <2>4. ~wrapped => \A i \in DOMAIN stack : stack[i].batch \ {p} \subseteq rest[i].batch
    BY <1>1, <1>3, <1>5, <2>2
  <2>. QED
    BY <1>1, <1>3, <2>1, <2>2, <2>3, <2>4, EndPendingTells DEF end_with_fallback
<1>. QED
  BY <1>6, <1>7

(* The steps that only leave a frame.                                      *)
LEMMA LeavesCore ==
  ASSUME CoreInv, IInv', EndDone \/ EventReturns \/ FreeDone
  PROVE  CoreInv'
<1>0. alive \in BOOLEAN
  BY DEF CoreInv, IInv, TypeOK
<1>1. CASE EndDone
  <2>1. stack # <<>> /\ stack' = Tail(stack) /\ Head(stack).op = "ending" /\ Head(stack).batch = {}
        /\ UNCHANGED <<alive, pending, req, id, order, freed, wrapped, events>>
    BY <1>1 DEF EndDone, Running
  <2>2. alive' = (alive /\ Head(stack).op # "free")
    BY <1>0, <2>1
  <2>. QED
    BY <2>1, <2>2, PopCore
<1>2. CASE EventReturns
  <2>1. stack # <<>> /\ stack' = Tail(stack) /\ Head(stack).op \in {"ended", "arrived"}
        /\ freed' = (IF Head(stack).op = "ended" THEN freed \cup {Head(stack).tok} ELSE freed)
        /\ UNCHANGED <<alive, pending, req, id, order, wrapped, events>>
    BY <1>2 DEF EventReturns, Running
  <2>2. alive' = (alive /\ Head(stack).op # "free")
    BY <1>0, <2>1
  <2>. QED
    BY <2>1, <2>2, PopCore
<1>3. CASE FreeDone
  <2>1. stack # <<>> /\ stack' = Tail(stack) /\ Head(stack).op = "free" /\ pending = {} /\ alive' = FALSE
        /\ UNCHANGED <<pending, req, id, order, freed, wrapped, events>>
    BY <1>3 DEF FreeDone, Running
  <2>2. alive' = (alive /\ Head(stack).op # "free")
    BY <1>0, <2>1
  <2>. QED
    BY <2>1, <2>2, PopCore
<1>. QED
  BY <1>1, <1>2, <1>3

(* The top frame, put in the place of another, the rest of the stack as it *)
(* is.                                                                     *)
LEMMA Replaced ==
  ASSUME NEW f \in Frame, NEW s \in Seq(Frame), s # <<>>
  PROVE  /\ Push(f, Tail(s)) \in Seq(Frame) /\ Push(f, Tail(s)) # <<>>
         /\ Len(Push(f, Tail(s))) = Len(s) /\ DOMAIN Push(f, Tail(s)) = DOMAIN s
         /\ 1 \in DOMAIN s /\ Head(s) = s[1] /\ Push(f, Tail(s))[1] = f
         /\ \A i \in DOMAIN s : i # 1 => Push(f, Tail(s))[i] = s[i]
BY DEF Push

(* The events of a request that ends.                                      *)
LEMMA EndTold ==
  ASSUME NEW reason \in EndReason
  PROVE  Append(<<"request">>, reason) = <<"request", reason>>
<1>. DEFINE S == {"request"} \cup EndReason
            e == Append(<<"request">>, reason)
            p == <<"request", reason>>
<1>1. e \in Seq(S) /\ Len(e) = 2 /\ e[1] = "request" /\ e[2] = reason
  OBVIOUS
<1>2. p \in Seq(S) /\ Len(p) = 2 /\ p[1] = "request" /\ p[2] = reason
  OBVIOUS
<1>. HIDE DEF S, e, p
<1>3. e = [i \in 1..2 |-> e[i]] /\ p = [i \in 1..2 |-> p[i]]
  BY <1>1, <1>2
<1>4. \A i \in 1..2 : e[i] = p[i]
  BY <1>1, <1>2
<1>5. e = p
  BY <1>3, <1>4
<1>. QED
  BY <1>5 DEF e, p

(* reply_fn has returned: subscribers are told the end.                    *)
LEMMA ReplyReturnsCore ==
  ASSUME CoreInv, IInv', ReplyReturns
  PROVE  CoreInv'
<1>. USE DEF CoreInv
<1>. DEFINE f == [Head(stack) EXCEPT !.op = "ended"]
            t == Head(stack).tok
<1>1. stack # <<>> /\ stack \in Seq(Frame) /\ Head(stack).op = "reply" /\ Head(stack) \in Frame
      /\ Head(stack).reason \in EndReason
  BY TailSeq, ZenonT(60) DEF ReplyReturns, Running, IInv, TypeOK, Frame
<1>2. f \in Frame /\ f.op = "ended" /\ f.tok = t
  BY <1>1 DEF Frame, FrameOp
<1>3. /\ stack' = Push(f, Tail(stack)) /\ events' = [events EXCEPT ![t] = Append(@, Head(stack).reason)]
      /\ UNCHANGED <<alive, pending, req, id, order, freed, wrapped>>
  BY DEF ReplyReturns
<1>. HIDE DEF f
<1>4. /\ stack' # <<>> /\ Len(stack') = Len(stack) /\ DOMAIN stack' = DOMAIN stack
      /\ 1 \in DOMAIN stack /\ Head(stack) = stack[1] /\ stack'[1] = f
      /\ \A i \in DOMAIN stack : i # 1 => stack'[i] = stack[i]
  <2>. DEFINE p == Push(f, Tail(stack))
  <2>1. /\ p # <<>> /\ Len(p) = Len(stack) /\ DOMAIN p = DOMAIN stack
        /\ 1 \in DOMAIN stack /\ Head(stack) = stack[1] /\ p[1] = f
        /\ \A i \in DOMAIN stack : i # 1 => p[i] = stack[i]
    BY <1>1, <1>2, Replaced
  <2>2. stack' = p
    BY <1>3
  <2>. HIDE DEF p
  <2>. QED
    BY <2>1, <2>2
<1>5. 1 \in Ends(stack) /\ Ends(stack') = Ends(stack) /\ \A i \in Ends(stack) : i \in DOMAIN stack
  BY <1>1, <1>2, <1>4 DEF Ends
<1>6. \A i \in DOMAIN stack : stack'[i].tok = stack[i].tok
  BY <1>2, <1>4
<1>7. /\ t \in Token /\ t \notin pending \cup freed /\ order[t] # 0 /\ events'[t] \in EndEvents
      /\ \A u \in Token : u # t => events'[u] = events[u]
  <2>1. t \in Token /\ order[t] # 0
    BY <1>1, <1>4 DEF IInv, GoodStack, AboutRequest
  <2>2. t \notin pending \cup freed /\ events[t] = <<"request">>
    BY <1>1, <1>4, <1>5 DEF Told
  <2>3. events'[t] = <<"request", Head(stack).reason>>
    <3>1. events'[t] = Append(events[t], Head(stack).reason)
      BY <1>3, <2>1 DEF IInv, TypeOK
    <3>2. Append(<<"request">>, Head(stack).reason) = <<"request", Head(stack).reason>>
      BY <1>1, EndTold
    <3>. QED
      BY <2>2, <3>1, <3>2, Zenon
  <2>4. events'[t] \in EndEvents
    BY <1>1, <2>3 DEF EndEvents
  <2>5. \A u \in Token : u # t => events'[u] = events[u]
    BY <1>3 DEF IInv, TypeOK
  <2>. QED
    BY <2>1, <2>2, <2>4, <2>5
<1>8. \A i \in Ends(stack) : i # 1 => stack[i].tok # t
  BY <1>4, <1>5 DEF Told
<1>9. Told'
  <2>1. \A i, j \in Ends(stack) : stack'[i].tok = stack'[j].tok => i = j
    BY <1>5, <1>6 DEF Told
  <2>2. ASSUME NEW i \in Ends(stack)
        PROVE  /\ stack'[i].tok \notin pending \cup freed
               /\ events'[stack'[i].tok]
                    \in IF stack'[i].op = "reply" THEN {<<"request">>} ELSE EndEvents
    <3>1. CASE i = 1
      BY <1>2, <1>4, <1>7, <3>1
    <3>2. CASE i # 1
      <4>1. stack'[i] = stack[i] /\ stack[i].tok # t /\ i \in DOMAIN stack
        BY <1>4, <1>5, <1>8, <3>2
      <4>2. stack[i].tok \in Token
        BY <4>1, <2>2 DEF IInv, GoodStack, AboutRequest, Ends
      <4>3. events'[stack[i].tok] = events[stack[i].tok]
        BY <1>7, <4>1, <4>2
      <4>4. /\ stack[i].tok \notin pending \cup freed
            /\ events[stack[i].tok]
                 \in IF stack[i].op = "reply" THEN {<<"request">>} ELSE EndEvents
        BY <2>2, Zenon DEF Told
      <4>. QED
        BY <4>1, <4>3, <4>4
    <3>. QED
      BY <3>1, <3>2
  <2>3. \A u \in Token : (\E i \in Ends(stack) : stack[i].tok = u)
                           => \E i \in Ends(stack) : stack'[i].tok = u
    BY <1>5, <1>6
  <2>4. \A u \in Token :
          /\ order'[u] = 0 => events'[u] = <<>> /\ u \notin freed'
          /\ u \in pending' => events'[u] = <<"request">> /\ u \notin freed'
          /\ u \in freed' => events'[u] \in EndEvents
          /\ order'[u] # 0 => u \in pending' \cup freed' \/ \E i \in Ends(stack) : stack'[i].tok = u
    BY <1>3, <1>7, <2>3 DEF Told
  <2>. QED
    BY <1>3, <1>5, <2>1, <2>2, <2>4 DEF Told
<1>10. \A i \in DOMAIN stack : stack'[i].op \notin {"reply", "ended"} => stack'[i] = stack[i]
  BY <1>2, <1>4
<1>11. \A i \in DOMAIN stack : stack[i].op # "reply" => stack'[i] = stack[i]
  BY <1>1, <1>4
<1>12. Control'
  <2>1. \A i \in DOMAIN stack' : stack'[i].op = "free" => i = Len(stack')
    BY <1>4, <1>10 DEF Control
  <2>2. \A u \in Token : req'[u] # NoRequest /\ order'[u] = 0 =>
          \E i \in DOMAIN stack' : stack'[i].op = "submit" /\ stack'[i].tok = u
    BY <1>3, <1>4, <1>11 DEF Control
  <2>. QED
    BY <1>1, <1>3, <2>1, <2>2 DEF Control
<1>13. Distinct'
  <2>1. \A i \in DOMAIN stack' : stack'[i].op = "ending" => \A u \in stack'[i].batch : order'[u] # 0
    BY <1>3, <1>4, <1>10 DEF Distinct
  <2>. QED
    BY <1>3, <2>1 DEF Distinct
<1>14. OnePerSim'
  <2>1. SUFFICES ASSUME ~Reentrant PROVE OnePerSim'
    BY DEF OnePerSim
  <2>2. \A i, j \in DOMAIN stack' : stack'[i].op = "submit" /\ stack'[j].op = "submit" => i = j
    BY <1>4, <1>10, <2>1 DEF OnePerSim
  <2>3. ASSUME ~wrapped', NEW i \in DOMAIN stack', NEW u \in pending',
               stack'[i].op = "submit", req'[u].sim = req'[stack'[i].tok].sim
        PROVE  \E j \in DOMAIN stack' : j < i /\ stack'[j].op = "ending" /\ u \in stack'[j].batch
    <3>1. i \in DOMAIN stack /\ stack'[i] = stack[i]
      BY <1>4, <1>10, <2>3
    <3>2. PICK j \in DOMAIN stack : j < i /\ stack[j].op = "ending" /\ u \in stack[j].batch
      BY <1>3, <2>1, <2>3, <3>1 DEF OnePerSim
    <3>. QED
      BY <1>4, <1>11, <3>2
  <2>4. ~wrapped' => \A u, v \in pending' : u # v => req'[u].sim # req'[v].sim
    BY <1>3, <2>1 DEF OnePerSim
  <2>. QED
    BY <2>2, <2>3, <2>4 DEF OnePerSim
<1>. QED
  BY <1>9, <1>12, <1>13, <1>14

(* The rest of stk_core_submit queues the request.                         *)
LEMMA SubmitPushCore ==
  ASSUME CoreInv, IInv', SubmitPush
  PROVE  CoreInv'
<1>. USE DEF CoreInv
<1>. DEFINE t == Head(stack).tok
            f == CallFrame("arrived", t, "answered")
<1>1. /\ stack # <<>> /\ stack \in Seq(Frame) /\ GoodStack(stack)
      /\ 1 \in DOMAIN stack /\ stack[1] = Head(stack) /\ stack[1].op = "submit"
  BY TailSeq DEF SubmitPush, Running, IInv, TypeOK
<1>2. t \in Token /\ req[t] # NoRequest /\ order[t] = 0
  BY <1>1 DEF GoodStack
<1>3. /\ id' = [id EXCEPT ![t] = next_id] /\ take_id
      /\ pending' = pending \cup {t}
      /\ order' = [order EXCEPT ![t] = count + 1]
      /\ events' = [events EXCEPT ![t] = Append(@, "request")]
      /\ stack' = Push(f, Tail(stack))
      /\ UNCHANGED <<alive, req, freed>>
  BY DEF SubmitPush
<1>4. f \in Frame /\ f.op = "arrived" /\ f.tok = t
  BY <1>2, CallFrameType DEF FrameOp, EndReason
<1>. HIDE DEF f
<1>5. /\ stack' # <<>> /\ Len(stack') = Len(stack) /\ DOMAIN stack' = DOMAIN stack
      /\ stack'[1] = f /\ \A i \in DOMAIN stack : i # 1 => stack'[i] = stack[i]
  <2>. DEFINE p == Push(f, Tail(stack))
  <2>1. /\ p # <<>> /\ Len(p) = Len(stack) /\ DOMAIN p = DOMAIN stack
        /\ p[1] = f /\ \A i \in DOMAIN stack : i # 1 => p[i] = stack[i]
    BY <1>1, <1>4, Replaced
  <2>2. stack' = p
    BY <1>3
  <2>. HIDE DEF p
  <2>. QED
    BY <2>1, <2>2
<1>6. /\ id'[t] = next_id /\ next_id # 0 /\ order'[t] # 0 /\ events'[t] = <<"request">>
      /\ t \notin freed /\ t \notin pending
      /\ \A u \in Token : u # t => id'[u] = id[u] /\ order'[u] = order[u] /\ events'[u] = events[u]
  <2>1. events[t] = <<>> /\ t \notin freed
    BY <1>2 DEF Told
  <2>2. id'[t] = next_id /\ next_id # 0 /\ order'[t] # 0
    BY <1>2, <1>3, StkCoreAssumption DEF IInv, TypeOK
  <2>3. events'[t] = <<"request">>
    BY <1>2, <1>3, <2>1 DEF IInv, TypeOK
  <2>4. \A u \in Token : u # t => id'[u] = id[u] /\ order'[u] = order[u] /\ events'[u] = events[u]
    BY <1>3 DEF IInv, TypeOK
  <2>5. t \notin pending
    BY <1>2, PendingFacts
  <2>. QED
    BY <2>1, <2>2, <2>3, <2>4, <2>5
<1>7. \A i \in Ends(stack) : /\ i # 1 /\ i \in DOMAIN stack /\ stack'[i] = stack[i]
                             /\ stack[i].tok \in Token /\ stack[i].tok # t
  <2>1. \A i \in Ends(stack) : i # 1 /\ i \in DOMAIN stack
    BY <1>1 DEF Ends
  <2>2. \A i \in Ends(stack) : stack[i].tok \in Token /\ order[stack[i].tok] # 0
    BY <1>1 DEF Ends, GoodStack, AboutRequest
  <2>. QED
    BY <1>2, <1>5, <2>1, <2>2
<1>8. Ends(stack') = Ends(stack)
  <2>1. \A i \in DOMAIN stack : i = 1 => stack'[i].op = "arrived" /\ stack[i].op = "submit"
    BY <1>1, <1>4, <1>5
  <2>. QED
    BY <1>5, <2>1 DEF Ends
<1>9. Told'
  <2>1. \A i, j \in Ends(stack) : stack'[i].tok = stack'[j].tok => i = j
    BY <1>7 DEF Told
  <2>2. ASSUME NEW i \in Ends(stack)
        PROVE  /\ stack'[i].tok \notin pending' \cup freed'
               /\ events'[stack'[i].tok]
                    \in IF stack'[i].op = "reply" THEN {<<"request">>} ELSE EndEvents
    <3>1. /\ stack[i].tok \notin pending \cup freed
          /\ events[stack[i].tok]
               \in IF stack[i].op = "reply" THEN {<<"request">>} ELSE EndEvents
      BY Zenon DEF Told
    <3>. QED
      BY <1>3, <1>6, <1>7, <3>1
  <2>3. \A u \in Token : (\E i \in Ends(stack) : stack[i].tok = u)
                           => \E i \in Ends(stack) : stack'[i].tok = u
    BY <1>7
  <2>4. \A u \in Token :
          /\ order'[u] = 0 => events'[u] = <<>> /\ u \notin freed'
          /\ u \in pending' => events'[u] = <<"request">> /\ u \notin freed'
          /\ u \in freed' => events'[u] \in EndEvents
          /\ order'[u] # 0 => u \in pending' \cup freed' \/ \E i \in Ends(stack) : stack'[i].tok = u
    BY <1>3, <1>6, <2>3 DEF Told
  <2>. QED
    BY <1>8, <2>1, <2>2, <2>4 DEF Told
<1>10. \A i \in DOMAIN stack : stack'[i].op # "arrived" => i # 1 /\ stack'[i] = stack[i]
  BY <1>4, <1>5
<1>11. \A i \in DOMAIN stack : stack[i].op # "submit" => i # 1 /\ stack'[i] = stack[i]
  BY <1>1, <1>5
<1>12. Control'
  <2>1. \A i \in DOMAIN stack' : stack'[i].op = "free" => i = Len(stack')
    BY <1>5, <1>10 DEF Control
  <2>2. ASSUME NEW u \in Token, req'[u] # NoRequest, order'[u] = 0
        PROVE  \E i \in DOMAIN stack' : stack'[i].op = "submit" /\ stack'[i].tok = u
    <3>1. u # t /\ req[u] # NoRequest /\ order[u] = 0
      BY <1>3, <1>6, <2>2
    <3>2. PICK i \in DOMAIN stack : stack[i].op = "submit" /\ stack[i].tok = u
      BY <3>1 DEF Control
    <3>3. i # 1
      BY <1>1, <3>1, <3>2
    <3>. QED
      BY <1>5, <3>2, <3>3
  <2>3. alive' /\ stack' # <<>>
    BY <1>1, <1>3, <1>5 DEF Control
  <2>. QED
    BY <2>1, <2>2, <2>3 DEF Control
<1>13. ~wrapped' => ~wrapped /\ \A u \in Token : id[u] # next_id
  BY <1>3 DEF take_id
<1>14. Distinct'
  <2>1. \A u \in Token : id'[u] = 0 <=> order'[u] = 0
    BY <1>6 DEF Distinct
  <2>2. ~wrapped' => \A u, v \in Token : id'[u] = id'[v] /\ id'[u] # 0 => u = v
    BY <1>6, <1>13 DEF Distinct
  <2>3. ASSUME NEW i \in DOMAIN stack', stack'[i].op = "ending", NEW u \in stack'[i].batch
        PROVE  order'[u] # 0
    <3>1. i \in DOMAIN stack /\ stack'[i] = stack[i]
      BY <1>5, <1>10, <2>3
    <3>2. u \in Token
      <4>1. stack[i] \in Frame /\ u \in stack[i].batch
        BY <1>1, <2>3, <3>1
      <4>. QED
        BY <4>1 DEF Frame
    <3>3. order[u] # 0
      BY <2>3, <3>1 DEF Distinct
    <3>. QED
      BY <1>6, <3>2, <3>3
  <2>. QED
    BY <2>1, <2>2, <2>3 DEF Distinct
<1>15. OnePerSim'
  <2>1. SUFFICES ASSUME ~Reentrant PROVE OnePerSim'
    BY DEF OnePerSim
  <2>2. \A i \in DOMAIN stack' : stack'[i].op # "submit"
    BY <1>1, <1>4, <1>5, <2>1 DEF OnePerSim
  <2>3. ASSUME ~wrapped, NEW u \in pending
        PROVE  req[u].sim # req[t].sim
    <3>1. ~ \E j \in DOMAIN stack : j < 1
      BY <1>1
    <3>. QED
      BY <1>1, <2>1, <2>3, <3>1 DEF OnePerSim
  <2>4. ~wrapped' => \A u, v \in pending' : u # v => req'[u].sim # req'[v].sim
    BY <1>3, <1>13, <2>1, <2>3 DEF OnePerSim
  <2>. QED
    BY <2>2, <2>4 DEF OnePerSim
<1>. QED
  BY <1>9, <1>12, <1>14, <1>15

LEMMA CoreStep == CoreInv /\ [Next]_coreVars => CoreInv'
<1>. SUFFICES ASSUME CoreInv, [Next]_coreVars
              PROVE  CoreInv'
  OBVIOUS
<1>1. IInv'
  BY NextStep DEF CoreInv
<1>2. CASE Calls \/ \E t \in Token : TimerFires(t)
  BY <1>1, <1>2, CallsCore
<1>3. CASE Steps
  <2>1. CASE FreeNext
    <3>1. PICK t \in Oldest(pending) : end_with_fallback(t, "shutdown", stack)
      BY <2>1 DEF FreeNext
    <3>2. t \in pending /\ alive
      BY <2>1, <3>1 DEF Oldest, FreeNext, Running, CoreInv, Control
    <3>. QED
      BY <1>1, <3>1, <3>2, FallbackCore DEF EndReason
  <2>. QED
    BY <1>1, <1>3, <2>1, EndNextCore, LeavesCore, SubmitPushCore, ReplyReturnsCore DEF Steps
<1>4. CASE Stopped \/ UNCHANGED coreVars
  BY <1>1, <1>4 DEF Stopped, coreVars, CoreInv, Told, Control, Distinct, OnePerSim, Ends
<1>. QED
  BY <1>2, <1>3, <1>4 DEF Next

(* The second invariant is an invariant as well.                           *)
THEOREM SecondInvariant == Spec => []CoreInv
BY InitCoreInv, CoreStep, PTL DEF Spec

-----------------------------------------------------------------------------
(***************************************************************************)
(* What the second one gives.                                              *)
(***************************************************************************)
(* Nothing that is queued or being ended has been freed.                   *)
LEMMA EndedIsStill == CoreInv => EndedBeforeFreed
BY DEF CoreInv, IInv, TypeOK, Told, Ends, EndedBeforeFreed

(* While reply_fn and event_fn run for the end of a request, it is still   *)
(* there, whatever they call: nothing in the queue, and no activation of   *)
(* end_pending further down, holds memory that has been freed.             *)
THEOREM EndedIsLive == Spec => []EndedBeforeFreed
BY EndedIsStill, SecondInvariant, PTL

(***************************************************************************)
(* stk_core_submit reads the id of its request after event_fn has been     *)
(* told of it.  That is safe as the daemon does it: event_fn does not call *)
(* the core, so that it is only ever at the top of the stack.              *)
(***************************************************************************)
Arriving(s, P) == \A i \in DOMAIN s : s[i].op = "arrived" => i = 1 /\ s[1].tok \in P

(* A frame pushed on a stack without one that has just submitted.          *)
LEMMA PushArriving ==
  ASSUME NEW f \in Frame, NEW s \in Seq(Frame), NEW P, Arriving(s, {}),
         f.op = "arrived" => f.tok \in P
  PROVE  Arriving(Push(f, s), P)
<1>. DEFINE p == Push(f, s)
<1>1. /\ p[1] = f
      /\ \A i \in DOMAIN p : i # 1 => i - 1 \in DOMAIN s /\ p[i] = s[i - 1]
  BY PushSeq
<1>2. \A i \in DOMAIN s : s[i].op # "arrived"
  BY DEF Arriving
<1>. HIDE DEF p
<1>. QED
  <2>1. Arriving(p, P)
    BY <1>1, <1>2 DEF Arriving
  <2>. QED
    BY <2>1 DEF p

(* Below the running frame there is none.                                  *)
LEMMA BelowTop ==
  ASSUME NEW s \in Seq(Frame), s # <<>>, NEW P, Arriving(s, P)
  PROVE  /\ Arriving(Tail(s), {})
         /\ Head(s).op # "arrived" => Arriving(s, {})
BY TailSeq DEF Arriving

(* Each step keeps it at the top, and its request in the queue.            *)
LEMMA SubmitArriving ==
  ASSUME CoreInv, IInv', ~Reentrant, Arriving(stack, pending), [Next]_coreVars
  PROVE  Arriving(stack', pending')
<1>0. /\ stack \in Seq(Frame)
      /\ stack # <<>> => Head(stack) \in Frame
      /\ stack = <<>> => Arriving(stack, {})
  BY TailSeq DEF CoreInv, IInv, TypeOK, Arriving
<1>1. ASSUME NEW t \in pending, NEW reply, NEW reason \in EndReason, NEW below \in Seq(Frame),
             end_pending(t, reply, reason, below), Arriving(below, {})
      PROVE  Arriving(stack', pending')
  <2>1. /\ CallFrame("reply", t, reason) \in Frame
        /\ CallFrame("reply", t, reason).op = "reply"
    BY PendingFacts, CallFrameType DEF FrameOp, CoreInv
  <2>. QED
    BY <1>1, <2>1, PushArriving DEF end_pending
<1>2. CASE stack = <<>> /\ (Calls \/ \E t \in Token : TimerFires(t))
  <2>1. Arriving(stack, {})
    BY <1>0, <1>2
  <2>2. ASSUME NEW t \in Token, NEW r \in Requests, Submit(t, r)
        PROVE  Arriving(stack', pending')
    <3>. DEFINE lf == LoopFrame(Matching(r.sim, BOOLEAN), "superseded")
                cf == CallFrame("submit", t, "answered")
    <3>1. Matching(r.sim, BOOLEAN) \subseteq Token
      BY DEF Matching, CoreInv, IInv, TypeOK
    <3>2. lf \in Frame /\ lf.op = "ending" /\ cf \in Frame /\ cf.op = "submit"
      BY <3>1, LoopFrameType, CallFrameType DEF EndReason, FrameOp
    <3>3. stack' = Push(lf, Push(cf, stack))
      BY <2>2 DEF Submit
    <3>. HIDE DEF lf, cf
    <3>4. Push(cf, stack) \in Seq(Frame) /\ Arriving(Push(cf, stack), {})
      BY <1>0, <2>1, <3>2, PushSeq, PushArriving
    <3>. QED
      BY <3>2, <3>3, <3>4, PushArriving
  <2>3. ASSUME NEW i \in 1..MaxId, NEW action \in Action, NEW a \in Answers, Respond(i, action, a)
        PROVE  Arriving(stack', pending')
    <3>1. PICK t \in find_pending(i) : \E reply \in respond_reply(req[t], action, a) :
                 end_pending(t, reply, "answered", stack)
      BY <2>3 DEF Respond
    <3>2. t \in pending
      BY <3>1 DEF find_pending, Oldest
    <3>. QED
      BY <1>0, <1>1, <2>1, <3>1, <3>2 DEF EndReason
  <2>4. ASSUME NEW sim, NEW sessions, NEW reason \in {"cancelled", "released"},
               EndAgent(sim, sessions, reason)
        PROVE  Arriving(stack', pending')
    <3>1. Matching(sim, sessions) \subseteq Token
      BY DEF Matching, CoreInv, IInv, TypeOK
    <3>2. /\ LoopFrame(Matching(sim, sessions), reason) \in Frame
          /\ LoopFrame(Matching(sim, sessions), reason).op = "ending"
      BY <3>1, LoopFrameType DEF EndReason
    <3>. QED
      BY <1>0, <2>1, <2>4, <3>2, PushArriving DEF EndAgent
  <2>5. ASSUME NEW on \in Timeouts, SetTimeout(on)
        PROVE  Arriving(stack', pending')
    BY <2>5 DEF SetTimeout
  <2>6. CASE Free
    <3>1. /\ CallFrame("free", NoToken, "shutdown") \in Frame
          /\ CallFrame("free", NoToken, "shutdown").op = "free"
      BY CallFrameType DEF FrameOp, EndReason
    <3>2. stack' = Push(CallFrame("free", NoToken, "shutdown"), stack)
      BY <1>2, <2>6 DEF Free, Push
    <3>. QED
      BY <1>0, <2>1, <3>1, <3>2, PushArriving
  <2>7. ASSUME NEW t \in Token, TimerFires(t)
        PROVE  Arriving(stack', pending')
    BY <1>0, <1>1, <2>1, <2>7 DEF TimerFires, end_with_fallback, EndReason, CoreInv, IInv,
       TimerOnlyWhilePending
  <2>. QED
    BY <1>2, <2>2, <2>3, <2>4, <2>5, <2>6, <2>7 DEF Calls
<1>3. CASE stack # <<>> /\ (Calls \/ \E t \in Token : TimerFires(t))
  BY <1>3 DEF Calls, Submit, Respond, EndAgent, SetTimeout, Free, TimerFires, CallerRuns
<1>4. ASSUME stack # <<>>
      PROVE  /\ Arriving(Tail(stack), {}) /\ Tail(stack) \in Seq(Frame)
             /\ Head(stack).op # "arrived" => Arriving(stack, {})
  BY <1>0, <1>4, BelowTop, TailSeq
<1>5. CASE EndNext
  <2>1. PICK t \in Oldest(Head(stack).batch) :
          LET rest == Push([Head(stack) EXCEPT !.batch = @ \ {t}], Tail(stack))
          IN  IF find_pending(id[t]) = {}
              THEN /\ stack' = rest
                   /\ UNCHANGED <<alive, pending, req, id, order, count, timer, freed, next_id,
                                  wrapped, timeout_on, sent, events>>
              ELSE \E p \in find_pending(id[t]) : end_with_fallback(p, Head(stack).reason, rest)
    BY <1>5 DEF EndNext
  <2>. DEFINE f == [Head(stack) EXCEPT !.batch = @ \ {t}]
              rest == Push(f, Tail(stack))
  <2>2. stack # <<>> /\ Head(stack).op = "ending"
    BY <1>5 DEF EndNext, Running
  <2>3. f \in Frame /\ f.op = "ending" /\ Head(stack).reason \in EndReason
    BY <1>0, <2>2 DEF Frame
  <2>. HIDE DEF f
  <2>4. rest \in Seq(Frame) /\ Arriving(rest, {})
    BY <1>4, <2>2, <2>3, PushSeq, PushArriving
  <2>5. CASE find_pending(id[t]) = {}
    BY <2>1, <2>4, <2>5 DEF Arriving, f
  <2>6. CASE find_pending(id[t]) # {}
    <3>1. PICK p \in find_pending(id[t]) : end_with_fallback(p, Head(stack).reason, rest)
      BY <2>1, <2>6 DEF f
    <3>2. p \in pending
      BY <3>1 DEF find_pending, Oldest
    <3>. QED
      BY <1>1, <2>3, <2>4, <3>1, <3>2 DEF end_with_fallback
  <2>. QED
    BY <2>5, <2>6
<1>6. CASE EndDone \/ EventReturns \/ FreeDone
  <2>1. stack # <<>> /\ stack' = Tail(stack)
    BY <1>6 DEF EndDone, EventReturns, FreeDone, Running
  <2>. QED
    BY <1>4, <2>1 DEF Arriving
<1>7. CASE SubmitPush
  <2>. DEFINE t == Head(stack).tok
              f == CallFrame("arrived", t, "answered")
  <2>1. /\ stack # <<>> /\ Head(stack).op = "submit"
        /\ pending' = pending \cup {t} /\ stack' = Push(f, Tail(stack))
    BY <1>7 DEF SubmitPush, Running
  <2>2. f \in Frame /\ f.tok \in pending'
    BY <1>0, <2>1, CallFrameType DEF Frame, FrameOp, EndReason
  <2>. HIDE DEF f
  <2>. QED
    BY <1>4, <2>1, <2>2, PushArriving
<1>8. CASE ReplyReturns
  <2>. DEFINE f == [Head(stack) EXCEPT !.op = "ended"]
  <2>1. stack # <<>> /\ stack' = Push(f, Tail(stack))
    BY <1>8 DEF ReplyReturns, Running
  <2>2. f \in Frame /\ f.op = "ended"
    BY <1>0, <2>1 DEF Frame, FrameOp
  <2>. HIDE DEF f
  <2>. QED
    BY <1>4, <2>1, <2>2, PushArriving
<1>9. CASE FreeNext
  <2>1. stack # <<>> /\ Head(stack).op = "free"
    BY <1>9 DEF FreeNext, Running
  <2>2. PICK t \in Oldest(pending) : end_with_fallback(t, "shutdown", stack)
    BY <1>9 DEF FreeNext
  <2>. QED
    BY <1>0, <1>1, <1>4, <2>1, <2>2 DEF end_with_fallback, Oldest, EndReason
<1>10. CASE Stopped \/ UNCHANGED coreVars
  BY <1>10 DEF Stopped, coreVars
<1>. QED
  BY <1>2, <1>3, <1>5, <1>6, <1>7, <1>8, <1>9, <1>10 DEF Next, Steps

(* When the callbacks do not call back, the id that stk_core_submit        *)
(* returns is read from a request that is there.                           *)
THEOREM SubmittedIsLive ==
  ASSUME ~Reentrant
  PROVE  Spec => []SubmittedStays
<1>. DEFINE Top == Arriving(stack, pending)
<1>1. Init => Top
  BY DEF Init, Arriving
<1>2. CoreInv /\ CoreInv' /\ Top /\ [Next]_coreVars => Top'
  BY SubmitArriving DEF CoreInv
<1>3. CoreInv /\ Top => SubmittedStays
  BY EndedIsStill DEF Arriving, SubmittedStays, EndedBeforeFreed
<1>. HIDE DEF Top
<1>. QED
  BY <1>1, <1>2, <1>3, SecondInvariant, PTL DEF Spec

(* A subscriber that replays the events has, whenever the main loop runs,  *)
(* exactly the pending requests, and no request begins or ends twice.      *)
THEOREM SubscribersAreRight == Spec => []EventsTellPending
<1>1. ASSUME CoreInv
      PROVE  EventsTellPending
  <2>. USE DEF CoreInv
  <2>1. ASSUME NEW t \in Token
        PROVE  events[t] \in {<<>>, <<"request">>} \cup {<<"request", r>> : r \in EndReason}
    <3>1. CASE \E i \in Ends(stack) : stack[i].tok = t
      <4>1. PICK i \in Ends(stack) : stack[i].tok = t
        BY <3>1
      <4>2. events[t] \in IF stack[i].op = "reply" THEN {<<"request">>} ELSE EndEvents
        BY <1>1, <4>1, Zenon DEF Told
      <4>. QED
        BY <4>2 DEF EndEvents
    <3>2. CASE ~ \E i \in Ends(stack) : stack[i].tok = t
      <4>1. events[t] = <<>> \/ events[t] = <<"request">> \/ events[t] \in EndEvents
        BY <1>1, <3>2 DEF Told
      <4>. QED
        BY <4>1 DEF EndEvents
    <3>. QED
      BY <3>1, <3>2
  <2>2. ASSUME stack = <<>>, NEW t \in Token
        PROVE  t \in pending <=> events[t] = <<"request">>
    <3>1. Ends(stack) = {}
      BY <2>2 DEF Ends
    <3>2. order[t] = 0 \/ t \in pending \/ t \in freed
      BY <1>1, <3>1 DEF Told
    <3>3. \A e \in EndEvents : e # <<"request">>
      BY DEF EndEvents
    <3>4. <<>> # <<"request">>
      OBVIOUS
    <3>. QED
      BY <1>1, <3>2, <3>3, <3>4 DEF Told
  <2>3. pending \subseteq Token
    BY <1>1 DEF IInv, TypeOK
  <2>. QED
    BY <2>1, <2>2, <2>3 DEF EventsTellPending
<1>. QED
  BY <1>1, SecondInvariant, PTL

(* An answer is for the request whose id it names, for as long as the ids  *)
(* have not wrapped; and a SIM has one request at a time.                  *)
THEOREM AnswersAreForOne == Spec => []NoneConfused
<1>1. ASSUME CoreInv
      PROVE  NoneConfused
  <2>. USE DEF CoreInv
  <2>1. \A t \in pending : t \in Token /\ id[t] # 0
    BY <1>1, PendingFacts DEF Distinct
  <2>2. ~wrapped => \A t, u \in pending : t # u => id[t] # id[u]
    BY <1>1, <2>1 DEF Distinct
  <2>3. ~wrapped /\ ~Reentrant => \A t, u \in pending : t # u => req[t].sim # req[u].sim
    BY <1>1 DEF OnePerSim
  <2>. QED
    BY <2>2, <2>3 DEF NoneConfused
<1>. QED
  BY <1>1, SecondInvariant, PTL

(* end_matching ends only the requests that matched when it was called,    *)
(* whatever its callbacks submit and end while it runs.                    *)
THEOREM NewcomersAreSpared == Spec => NewcomersSpared
<1>1. ASSUME CoreInv, [Next]_coreVars, NEW t \in pending \ pending', Running("ending"), ~wrapped
      PROVE  t \in Head(stack).batch
  <2>1. EndNext
    <3>1. pending' # pending
      BY <1>1
    <3>2. stack # <<>> /\ Head(stack).op = "ending" /\ ~CallerRuns
      BY <1>1 DEF Running, CallerRuns
    <3>3. ~Calls \/ pending' = pending
      BY <3>2 DEF Calls, Submit, Respond, EndAgent, SetTimeout, Free
    <3>4. \A u \in Token : ~TimerFires(u)
      BY <3>2 DEF TimerFires
    <3>5. ~SubmitPush /\ ~FreeNext
      BY <3>2 DEF SubmitPush, FreeNext, Running
    <3>6. EndDone \/ ReplyReturns \/ EventReturns \/ FreeDone \/ Stopped \/ UNCHANGED coreVars
            => pending' = pending
      BY DEF EndDone, ReplyReturns, EventReturns, FreeDone, Stopped, coreVars
    <3>. QED
      BY <1>1, <3>1, <3>3, <3>4, <3>5, <3>6 DEF Next, Steps
  <2>2. PICK b \in Oldest(Head(stack).batch) :
          LET rest == Push([Head(stack) EXCEPT !.batch = @ \ {b}], Tail(stack))
          IN  IF find_pending(id[b]) = {}
              THEN /\ stack' = rest
                   /\ UNCHANGED <<alive, pending, req, id, order, count, timer, freed, next_id,
                                  wrapped, timeout_on, sent, events>>
              ELSE \E p \in find_pending(id[b]) : end_with_fallback(p, Head(stack).reason, rest)
    BY <2>1 DEF EndNext
  <2>3. b \in Head(stack).batch /\ b \in Token /\ order[b] # 0
    <3>1. stack \in Seq(Frame) /\ stack # <<>> /\ Head(stack).op = "ending" /\ b \in Head(stack).batch
      BY <1>1, <2>2 DEF Oldest, Running, CoreInv, IInv, TypeOK
    <3>2. 1 \in DOMAIN stack /\ stack[1] = Head(stack) /\ Head(stack) \in Frame
      BY <3>1, TailSeq
    <3>3. order[b] # 0
      BY <1>1, <3>1, <3>2 DEF CoreInv, Distinct
    <3>. QED
      BY <3>1, <3>2, <3>3 DEF Frame
  <2>4. PICK p \in find_pending(id[b]) : pending' = pending \ {p}
    BY <1>1, <2>2 DEF end_with_fallback, end_pending
  <2>5. p = b
    BY <1>1, <2>3, FoundIsSame
  <2>. QED
    BY <1>1, <2>3, <2>4, <2>5
<1>2. CoreInv /\ [Next]_coreVars =>
        [\A t \in pending \ pending' :
           (Running("ending") /\ ~wrapped) => t \in Head(stack).batch]_coreVars
  BY <1>1
<1>. QED
  BY <1>2, SecondInvariant, PTL DEF Spec, NewcomersSpared

-----------------------------------------------------------------------------
(***************************************************************************)
(* The core implements the promise to ofono, step by step.                 *)
(***************************************************************************)
PromiseStep == [Promise!Next]_(Promise!promiseVars)

(* StkPromise and StkCore look at a reply in the same way.                 *)
LEMMA SameCheck ==
  ASSUME NEW r, NEW reply
  PROVE  Promise!OfonoAccepts(r, reply) <=> OfonoAccepts(r, reply)
<1>1. Promise!type_info = type_info
  BY DEF Promise!type_info, type_info
<1>2. /\ Promise!allowed_errors(r.type) = allowed_errors(r.type)
      /\ Promise!answer_kind(r.type) = answer_kind(r.type)
  BY <1>1 DEF Promise!allowed_errors, Promise!answer_kind, allowed_errors, answer_kind
<1>3. Promise!OfonoTakesString(r, reply.string) <=> OfonoTakesString(r, reply.string)
  BY Zenon DEF Promise!OfonoTakesString, OfonoTakesString
<1>. QED
  BY <1>2, <1>3 DEF Promise!OfonoAccepts, OfonoAccepts

(* Whatever ends a request is a reply of the promise.                      *)
LEMMA EndIsReply ==
  ASSUME CoreInv, NEW t \in pending, NEW reply \in PossibleReplies, OfonoAccepts(req[t], reply),
         NEW reason, NEW below, end_pending(t, reply, reason, below)
  PROVE  PromiseStep
<1>1. t \in Token /\ sent[t] = <<>> /\ req[t] \in Requests /\ req[t] # NoRequest
  BY PendingFacts, StkCoreAssumption DEF CoreInv
<1>2. /\ sent' = [sent EXCEPT ![t] = <<reply>>] /\ UNCHANGED <<alive, req>>
      /\ Promise!OfonoAccepts(req[t], reply)
  <2>1. Append(sent[t], reply) = <<reply>>
    BY <1>1
  <2>. QED
    BY <2>1, SameCheck DEF end_pending
<1>3. Promise!Waiting(t)
  BY <1>1 DEF Promise!Waiting
<1>4. Promise!Reply(t)
  BY <1>2, <1>3, Zenon DEF Promise!Reply
<1>. QED
  BY <1>1, <1>4 DEF PromiseStep, Promise!Next

LEMMA FallbackIsReply ==
  ASSUME CoreInv, NEW t \in pending, NEW reason, NEW below, end_with_fallback(t, reason, below)
  PROVE  PromiseStep
<1>1. req[t] \in Requests /\ OfonoAccepts(req[t], fallback_reply(req[t]))
  BY PendingFacts, FallbackType DEF CoreInv
<1>2. fallback_reply(req[t]) \in PossibleReplies
  BY <1>1 DEF PossibleReplies
<1>. QED
  BY <1>1, <1>2, EndIsReply DEF end_with_fallback

LEMMA StepsKeepPromise == CoreInv /\ [Next]_coreVars => PromiseStep
<1>. SUFFICES ASSUME CoreInv, [Next]_coreVars
              PROVE  PromiseStep
  OBVIOUS
<1>0. UNCHANGED <<alive, req, sent>> => PromiseStep
  BY DEF PromiseStep, Promise!promiseVars
<1>1. ASSUME NEW t \in Token, NEW r \in Requests, Submit(t, r)
      PROVE  PromiseStep
  <2>1. alive /\ req[t] = NoRequest /\ req' = [req EXCEPT ![t] = r] /\ UNCHANGED <<alive, sent>>
    BY <1>1 DEF Submit, CallerRuns
  <2>2. alive = TRUE
    BY <2>1 DEF CoreInv, IInv, TypeOK
  <2>3. Promise!Arrive(t)
    BY <2>1, <2>2 DEF Promise!Arrive
  <2>. QED
    BY <2>3 DEF PromiseStep, Promise!Next
<1>2. ASSUME NEW i \in 1..MaxId, NEW action \in Action, NEW a \in Answers, Respond(i, action, a)
      PROVE  PromiseStep
  <2>1. PICK t \in find_pending(i) : \E reply \in respond_reply(req[t], action, a) :
                                       end_pending(t, reply, "answered", stack)
    BY <1>2 DEF Respond
  <2>2. PICK reply \in respond_reply(req[t], action, a) : end_pending(t, reply, "answered", stack)
    BY <2>1
  <2>3. t \in pending /\ req[t] \in Requests /\ req[t] \in AnyRequest
    BY <2>1, PendingFacts DEF find_pending, Oldest, CoreInv
  <2>4. OfonoAccepts(req[t], reply)
    BY <2>3, RespondType, StkCoreAssumption
  <2>5. reply \in PossibleReplies
    BY <2>3 DEF PossibleReplies
  <2>. QED
    BY <2>2, <2>3, <2>4, <2>5, EndIsReply
<1>3. CASE \E t \in Token : TimerFires(t)
  <2>1. PICK t \in Token : t \in timer /\ end_with_fallback(t, "timeout", stack)
    BY <1>3 DEF TimerFires
  <2>2. t \in pending
    BY <2>1 DEF CoreInv, IInv, TimerOnlyWhilePending
  <2>. QED
    BY <2>1, <2>2, FallbackIsReply
<1>4. CASE EndNext
  <2>. DEFINE rest(t) == Push([Head(stack) EXCEPT !.batch = @ \ {t}], Tail(stack))
  <2>1. PICK t \in Oldest(Head(stack).batch) :
          IF find_pending(id[t]) = {}
          THEN UNCHANGED <<alive, pending, req, id, order, count, timer, freed, next_id,
                           wrapped, timeout_on, sent, events>>
          ELSE \E p \in find_pending(id[t]) : end_with_fallback(p, Head(stack).reason, rest(t))
    BY <1>4 DEF EndNext
  <2>2. CASE find_pending(id[t]) = {}
    BY <1>0, <2>1, <2>2
  <2>3. CASE find_pending(id[t]) # {}
    <3>1. PICK p \in find_pending(id[t]) : end_with_fallback(p, Head(stack).reason, rest(t))
      BY <2>1, <2>3
    <3>2. p \in pending
      BY <3>1 DEF find_pending, Oldest
    <3>. HIDE DEF rest
    <3>. QED
      BY <3>1, <3>2, FallbackIsReply
  <2>. QED
    BY <2>2, <2>3
<1>5. CASE FreeNext
  <2>1. PICK t \in Oldest(pending) : end_with_fallback(t, "shutdown", stack)
    BY <1>5 DEF FreeNext
  <2>2. t \in pending
    BY <2>1 DEF Oldest
  <2>. QED
    BY <2>1, <2>2, FallbackIsReply
<1>6. CASE FreeDone
  <2>1. /\ stack # <<>> /\ Head(stack).op = "free" /\ pending = {} /\ alive' = FALSE
        /\ stack \in Seq(Frame) /\ UNCHANGED <<req, sent>>
    BY <1>6 DEF FreeDone, Running, CoreInv, IInv, TypeOK
  <2>2. alive = TRUE
    BY <2>1 DEF CoreInv, Control, IInv, TypeOK
  <2>3. Len(stack) = 1 /\ \A i \in DOMAIN stack : stack[i].op = "free"
    <3>1. 1 \in DOMAIN stack /\ stack[1] = Head(stack)
      BY <2>1, TailSeq
    <3>2. 1 = Len(stack)
      BY <2>1, <3>1 DEF CoreInv, Control
    <3>. QED
      BY <2>1, <3>1, <3>2
  <2>4. ASSUME NEW t \in Token, req[t] # NoRequest
        PROVE  sent[t] # <<>>
    <3>1. order[t] # 0
      BY <2>3, <2>4 DEF CoreInv, Control
    <3>. QED
      BY <2>1, <3>1 DEF CoreInv, IInv, ExactlyOneReply
  <2>5. Promise!Close
    BY <2>1, <2>2, <2>4 DEF Promise!Close, Promise!Waiting
  <2>. QED
    BY <2>5 DEF PromiseStep, Promise!Next
<1>7. CASE \/ EndDone \/ SubmitPush \/ ReplyReturns \/ EventReturns \/ Free \/ Stopped
           \/ UNCHANGED coreVars
  BY <1>0, <1>7 DEF EndDone, SubmitPush, ReplyReturns, EventReturns, Free, Stopped, coreVars
<1>8. ASSUME NEW on \in Timeouts, SetTimeout(on)
      PROVE  PromiseStep
  BY <1>0, <1>8 DEF SetTimeout
<1>9. ASSUME NEW sim, NEW sessions, NEW reason, EndAgent(sim, sessions, reason)
      PROVE  PromiseStep
  BY <1>0, <1>9 DEF EndAgent
<1>. QED
  BY <1>1, <1>2, <1>3, <1>4, <1>5, <1>6, <1>7, <1>8, <1>9 DEF Next, Calls, Steps

(* The safety half of KeepsPromise: seen from ofono, stkcore.c is          *)
(* StkPromise, for any invocations and requests and with callbacks that    *)
(* call back: one acceptable reply to each call, and the bookkeeping is    *)
(* not given up while a call waits.                                        *)
THEOREM ImplementsPromise == Spec => Promise!SafeSpec
<1>1. Init => Promise!Init
  BY DEF Init, Promise!Init
<1>2. CoreInv /\ [Next]_coreVars => [Promise!Next]_(Promise!promiseVars)
  BY StepsKeepPromise DEF PromiseStep
<1>. QED
  BY <1>1, <1>2, SecondInvariant, PTL DEF Spec, Promise!SafeSpec

-----------------------------------------------------------------------------
(***************************************************************************)
(* The answer checks, whatever the request and the answer; a character     *)
(* takes one byte or more.                                                 *)
(***************************************************************************)
(* What ofono would take is what the SIM gets, what ofono would refuse is  *)
(* refused, and nobody's choice is never a yes.  Only an index of 256 or   *)
(* more, which a menu of that many items admits, is sent modulo 256.       *)
THEOREM ChoiceKept ==
  ASSUME NEW request \in AnyRequest, NEW answer \in AnyAnswer,
         answer.string.chars <= answer.string.bytes
  PROVE  /\ answer.index < 256 => KeepsChoice(request, answer)
         /\ OfonoWouldTake(request, answer) <=> respond_reply(request, "answer", answer) # {}
         /\ \A reply \in respond_reply(request, "answer", answer) :
              reply.answer = "index" => reply.index = answer.index % 256
<1>. DEFINE replies == respond_reply(request, "answer", answer)
            s == answer.string
            ty == request.type
<1>1. ty \in RequestType /\ request.n_items \in Nat /\ s \in AnyString /\ answer.boolean \in BOOLEAN
  BY DEF AnyRequest, AnyAnswer
<1>2. replies = check_answer(request, answer)
  BY DEF respond_reply
<1>3. answer_kind(ty) \in {"none", "index", "boolean", "string"}
  BY <1>1, TypeInfo DEF AnswerKind
<1>4. /\ OfonoWouldTake(request, answer) <=> replies # {}
      /\ \A reply \in replies :
           /\ reply.answer = "index" => /\ reply.index = answer.index % 256
                                        /\ answer.index < 256 => reply.index = answer.index
           /\ reply.answer = "boolean" => reply.boolean = answer.boolean
           /\ reply.answer = "string" => reply.string = answer.string
  <2>1. CASE answer_kind(ty) = "none"
    <3>1. replies = {ZeroReply}
      BY <1>2, <2>1 DEF check_answer
    <3>2. ZeroReply.answer = "none"
      BY DEF ZeroReply
    <3>. QED
      BY <2>1, <3>1, <3>2 DEF OfonoWouldTake
  <2>2. CASE answer_kind(ty) = "index"
    <3>1. replies = {[ZeroReply EXCEPT !.answer = "index", !.index = i % 256] :
                       i \in {answer.index} \cap (IF answer.has_index THEN 0..(request.n_items - 1)
                                                  ELSE {})}
      BY <1>2, <2>2 DEF check_answer
    <3>2. ASSUME NEW reply \in replies
          PROVE  /\ reply.answer = "index" /\ reply.index = answer.index % 256
                 /\ answer.index < 256 => reply.index = answer.index
                 /\ OfonoWouldTake(request, answer)
      <4>1. /\ answer.has_index /\ answer.index \in 0..(request.n_items - 1)
            /\ reply = [ZeroReply EXCEPT !.answer = "index", !.index = answer.index % 256]
        BY <3>1, <3>2
      <4>2. answer.index < 256 => answer.index % 256 = answer.index
        BY <1>1, <4>1
      <4>3. OfonoWouldTake(request, answer)
        BY <2>2, <4>1 DEF OfonoWouldTake
      <4>. QED
        BY <4>1, <4>2, <4>3 DEF ZeroReply
    <3>3. ASSUME OfonoWouldTake(request, answer)
          PROVE  replies # {}
      <4>1. answer.has_index /\ answer.index \in 0..(request.n_items - 1)
        BY <2>2, <3>3 DEF OfonoWouldTake
      <4>. QED
        BY <3>1, <4>1, ZenonT(60)
    <3>. QED
      BY <3>2, <3>3
  <2>3. CASE answer_kind(ty) = "boolean"
    <3>1. replies = {[ZeroReply EXCEPT !.answer = "boolean", !.boolean = b] :
                       b \in {answer.boolean} \cap (IF answer.has_boolean THEN BOOLEAN ELSE {})}
      BY <1>2, <2>3 DEF check_answer
    <3>2. ASSUME NEW reply \in replies
          PROVE  /\ reply.answer = "boolean" /\ reply.boolean = answer.boolean
                 /\ OfonoWouldTake(request, answer)
      <4>1. answer.has_boolean
        BY <3>1, <3>2
      <4>. QED
        BY <2>3, <3>1, <3>2, <4>1 DEF ZeroReply, OfonoWouldTake
    <3>3. ASSUME OfonoWouldTake(request, answer)
          PROVE  replies # {}
      <4>1. answer.has_boolean
        BY <2>3, <3>3 DEF OfonoWouldTake
      <4>. QED
        BY <1>1, <3>1, <4>1
    <3>. QED
      BY <3>2, <3>3
  <2>4. CASE answer_kind(ty) = "string"
    <3>1. replies = IF answer.has_string /\ s.valid /\ check_string(request, s)
                    THEN {[ZeroReply EXCEPT !.answer = "string", !.string = s]}
                    ELSE {}
      BY <1>2, <2>4 DEF check_answer
    <3>2. ASSUME NEW reply \in replies
          PROVE  /\ reply.answer = "string" /\ reply.string = s
                 /\ OfonoWouldTake(request, answer)
      <4>1. answer.has_string /\ s.valid /\ check_string(request, s)
        BY <3>1, <3>2
      <4>2. ty \in {"input", "digits", "key", "digit", "quickDigit"}
        BY <4>1 DEF check_string
      <4>3. OfonoTakesString(request, s)
        BY <1>1, <4>1, <4>2 DEF OfonoTakesString, check_string, DigitSets, AnyString, AnyRequest
      <4>. QED
        BY <2>4, <3>1, <3>2, <4>1, <4>3 DEF ZeroReply, OfonoWouldTake
    <3>3. ASSUME OfonoWouldTake(request, answer)
          PROVE  replies # {}
      <4>1. answer.has_string /\ OfonoTakesString(request, s)
        BY <2>4, <3>3 DEF OfonoWouldTake
      <4>2. ty \in {"input", "digits", "key", "digit", "quickDigit"}
        BY <1>1, <2>4, SMTT(30) DEF RequestType, answer_kind, type_info
      <4>3. s.valid
        BY <4>1 DEF OfonoTakesString
      <4>4. check_string(request, s)
        <5>1. /\ s.bytes \in Nat /\ s.chars \in Nat /\ s.chars <= s.bytes
              /\ s.charset \in {"digits", "plus", "text"}
              /\ s.charset # "text" => s.chars = s.bytes
          BY <1>1 DEF AnyString
        <5>2. request.min_length \in Nat /\ request.max_length \in Nat
              /\ request.hide_typing \in BOOLEAN
          BY DEF AnyRequest
        <5>. QED
          BY <4>1, <4>2, <5>1, <5>2 DEF OfonoTakesString, check_string, DigitSets
      <4>. QED
        BY <3>1, <4>1, <4>3, <4>4
    <3>. QED
      BY <3>2, <3>3
  <2>. QED
    BY <1>3, <2>1, <2>2, <2>3, <2>4
<1>5. fallback_reply(request).kind = "endSession" \/ ~fallback_reply(request).boolean
  BY DEF fallback_reply, ZeroReply
<1>. HIDE DEF replies, s, ty
<1>6. ASSUME answer.index < 256
      PROVE  KeepsChoice(request, answer)
  BY <1>4, <1>5, <1>6 DEF KeepsChoice, replies, s
<1>7. \A reply \in replies : reply.answer = "index" => reply.index = answer.index % 256
  BY <1>4
<1>. QED
  BY <1>4, <1>6, <1>7 DEF replies

(* That goes for the menus, answers and bounds of the small instances too. *)
THEOREM ChoiceStaysKept == Spec => []ChoiceIsKept
<1>. DEFINE Replied == \A request \in AllRequests, answer \in AllAnswers :
                         KeepsChoice(request, answer)
<1>1. ASSUME NEW request \in AllRequests
      PROVE  request \in AnyRequest
  <2>1. ASSUME NEW kind, NEW items \in SUBSET (0..2), NEW lengths \in SUBSET (0..3),
               NEW r \in RequestsTo(TypesOf(kind), items, lengths)
        PROVE  r \in AnyRequest
    <3>. DEFINE types == TypesOf(kind)
    <3>1. types \subseteq RequestType
      BY DEF TypesOf
    <3>. HIDE DEF types
    <3>2. r \in [type: types, sim: {0}, session: {FALSE}, n_items: items,
                min_length: lengths, max_length: lengths, hide_typing: BOOLEAN]
      BY DEF RequestsTo, types
    <3>3. \A n \in items : n \in Nat
      OBVIOUS
    <3>4. lengths \subseteq Nat
      OBVIOUS
    <3>5. r = [type |-> r.type, sim |-> r.sim, session |-> r.session, n_items |-> r.n_items,
               min_length |-> r.min_length, max_length |-> r.max_length,
               hide_typing |-> r.hide_typing]
      BY <3>2
    <3>6. /\ r.type \in RequestType /\ r.sim \in Nat /\ r.session \in BOOLEAN
          /\ r.n_items \in Nat /\ r.min_length \in Nat
          /\ r.max_length \in Nat /\ r.hide_typing \in BOOLEAN
      <4>1. /\ r.type \in types /\ r.sim = 0 /\ r.session = FALSE
            /\ r.n_items \in items /\ r.min_length \in lengths
            /\ r.max_length \in lengths /\ r.hide_typing \in BOOLEAN
        BY <3>2
      <4>2. r.type \in RequestType /\ r.min_length \in Nat /\ r.max_length \in Nat
        BY <3>1, <3>4, <4>1, Zenon
      <4>3. r.n_items \in Nat
        BY <3>3, <4>1, Zenon
      <4>4. r.sim \in Nat
        BY <4>1
      <4>5. r.session \in BOOLEAN
        BY <4>1, Zenon
      <4>. QED
        BY <4>1, <4>2, <4>3, <4>4, <4>5, Zenon
    <3>. QED
      BY <3>5, <3>6 DEF AnyRequest
  <2>2. RequestsTo(TypesOf("none") \cup TypesOf("boolean"), {0}, {0}) =
          RequestsTo(TypesOf("none"), {0}, {0}) \cup RequestsTo(TypesOf("boolean"), {0}, {0})
    BY DEF RequestsTo
  <2>3. {{0}, 0..2} \subseteq SUBSET (0..2) /\ {{0}, 0..3} \subseteq SUBSET (0..3)
    OBVIOUS
  <2>4. \/ request \in RequestsTo(TypesOf("index"), 0..2, {0})
        \/ request \in RequestsTo(TypesOf("string"), {0}, 0..3)
        \/ request \in RequestsTo(TypesOf("none"), {0}, {0})
        \/ request \in RequestsTo(TypesOf("boolean"), {0}, {0})
    BY <2>2 DEF AllRequests, MaxItems, MaxLength
  <2>. QED
    BY <2>1, <2>3, <2>4
<1>2. ASSUME NEW answer \in AllAnswers
      PROVE  /\ answer \in AnyAnswer /\ answer.string.chars <= answer.string.bytes
             /\ answer.index < 256
  <2>1. /\ NoAnswer \in AnyAnswer /\ NoAnswer.string.chars <= NoAnswer.string.bytes
        /\ NoAnswer.index < 256
    BY DEF NoAnswer, EmptyString, AnyAnswer, AnyString
  <2>2. \A s \in Strings : s \in AnyString /\ s.chars <= s.bytes
    BY DEF Strings, AnyString, MaxLength
  <2>3. CASE answer = NoAnswer
    BY <2>1, <2>3
  <2>4. CASE \E i \in -1..3 : answer = [NoAnswer EXCEPT !.has_index = TRUE, !.index = i]
    <3>1. \A i \in -1..3 : i \in Int /\ i < 256
      OBVIOUS
    <3>2. PICK i \in -1..3 : answer = [NoAnswer EXCEPT !.has_index = TRUE, !.index = i]
      BY <2>4, Zenon
    <3>3. PICK i_int \in Int : i_int = i /\ i_int < 256
      BY <3>1, <3>2, Zenon
    <3>. QED
      BY <2>1, <3>2, <3>3 DEF AnyAnswer
  <2>5. CASE \E b \in BOOLEAN : answer = [NoAnswer EXCEPT !.has_boolean = TRUE, !.boolean = b]
    BY <2>1, <2>5 DEF AnyAnswer
  <2>6. CASE \E s \in Strings : answer = [NoAnswer EXCEPT !.has_string = TRUE, !.string = s]
    BY <2>1, <2>2, <2>6 DEF AnyAnswer
  <2>7. MaxItems + 1 = 3
    BY DEF MaxItems
  <2>. QED
    BY <1>2, <2>3, <2>4, <2>5, <2>6, <2>7, Zenon DEF AllAnswers, IndexAnswer
<1>3. Replied
  BY <1>1, <1>2, ChoiceKept
<1>4. ChoiceIsKept
  BY <1>3 DEF ChoiceIsKept
<1>. QED
  BY <1>4, PTL
=============================================================================
