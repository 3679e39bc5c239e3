------------------------------ MODULE StkTypes ------------------------------
(***************************************************************************)
(* The request types of the SIM toolkit agent, the check of the user's     *)
(* answer and the reply sent when nobody answers: the pure half of         *)
(* stkcore.c.  A string is reduced to what the checks look at: its length  *)
(* in bytes and in characters, the smallest of the three alphabets it fits *)
(* in, and whether it is valid UTF-8 without an embedded NUL.              *)
(***************************************************************************)
EXTENDS Integers

(* What each type answers with, and the D-Bus errors ofono takes instead.  *)
type_info ==
  [ selection                |-> [answer |-> "index",   errors |-> {"goBack", "endSession"}],
    displayText              |-> [answer |-> "none",    errors |-> {"goBack", "endSession", "busy"}],
    input                    |-> [answer |-> "string",  errors |-> {"goBack", "endSession"}],
    digits                   |-> [answer |-> "string",  errors |-> {"goBack", "endSession"}],
    key                      |-> [answer |-> "string",  errors |-> {"goBack", "endSession"}],
    digit                    |-> [answer |-> "string",  errors |-> {"goBack", "endSession"}],
    quickDigit               |-> [answer |-> "string",  errors |-> {"goBack", "endSession"}],
    confirmation             |-> [answer |-> "boolean", errors |-> {"goBack", "endSession"}],
    confirmCallSetup         |-> [answer |-> "boolean", errors |-> {"endSession"}],
    playTone                 |-> [answer |-> "none",    errors |-> {"endSession"}],
    loopTone                 |-> [answer |-> "none",    errors |-> {"endSession"}],
    displayActionInformation |-> [answer |-> "none",    errors |-> {}],
    confirmLaunchBrowser     |-> [answer |-> "boolean", errors |-> {}],
    displayAction            |-> [answer |-> "none",    errors |-> {"endSession"}],
    confirmOpenChannel       |-> [answer |-> "boolean", errors |-> {"endSession"}] ]

RequestType == DOMAIN type_info
AnswerKind  == {"none", "index", "string", "boolean"}
ErrorKind   == {"goBack", "endSession", "busy"}

answer_kind(type)    == type_info[type].answer
allowed_errors(type) == type_info[type].errors

(***************************************************************************)
(* Data.  "digits" is 0-9*#, "plus" is the same with at least one +.       *)
(***************************************************************************)
AnyString ==
  {s \in [bytes: Nat, chars: Nat, charset: {"digits", "plus", "text"}, valid: BOOLEAN] :
     s.charset # "text" => s.chars = s.bytes}
EmptyString == [bytes |-> 0, chars |-> 0, charset |-> "digits", valid |-> TRUE]

AnyRequest == [type: RequestType, sim: Nat, session: BOOLEAN,
               n_items: Nat, min_length: Nat, max_length: Nat, hide_typing: BOOLEAN]

AnyAnswer == [has_index: BOOLEAN, index: Int, has_string: BOOLEAN, string: AnyString,
              has_boolean: BOOLEAN, boolean: BOOLEAN]

AnyReply == [kind: {"answer"} \cup ErrorKind, answer: AnswerKind,
             index: 0..255, string: AnyString, boolean: BOOLEAN]

ZeroReply == [kind |-> "answer", answer |-> "none", index |-> 0,
              string |-> EmptyString, boolean |-> FALSE]

(***************************************************************************)
(* The answer checks.                                                      *)
(***************************************************************************)
DigitSets(hide) == IF hide THEN {"digits"} ELSE {"digits", "plus"}

\* Mutant: the longest input is refused.
check_string_short(r, s) ==
  CASE r.type = "input"  -> s.chars >= r.min_length /\ s.chars < r.max_length
    [] r.type = "digits" -> /\ s.bytes \in r.min_length..r.max_length
                            /\ s.charset \in DigitSets(r.hide_typing)
    [] OTHER             -> s.chars = 1

check_string(r, s) ==
  CASE r.type = "input"      -> s.chars \in r.min_length..r.max_length
    [] r.type = "digits"     -> /\ s.bytes \in r.min_length..r.max_length
                                /\ s.charset \in DigitSets(r.hide_typing)
    [] r.type = "key"        -> s.bytes # 0 /\ s.chars = 1
    [] r.type = "digit"      -> s.bytes = 1 /\ s.charset \in DigitSets(FALSE)
    [] r.type = "quickDigit" -> s.bytes = 1 /\ s.charset \in DigitSets(TRUE)
    [] OTHER                 -> FALSE

(* The reply an answer turns into: a singleton, or {} when it is refused.  *)
check_answer(r, a) ==
  CASE answer_kind(r.type) = "none" -> {ZeroReply}
    [] answer_kind(r.type) = "index" ->
         {[ZeroReply EXCEPT !.answer = "index", !.index = i % 256] :
            i \in {a.index} \cap (IF a.has_index THEN 0..(r.n_items - 1) ELSE {})}
    [] answer_kind(r.type) = "boolean" ->
         {[ZeroReply EXCEPT !.answer = "boolean", !.boolean = b] :
            b \in {a.boolean} \cap (IF a.has_boolean THEN BOOLEAN ELSE {})}
    [] answer_kind(r.type) = "string" ->
         IF a.has_string /\ a.string.valid /\ check_string(r, a.string)
         THEN {[ZeroReply EXCEPT !.answer = "string", !.string = a.string]}
         ELSE {}

fallback_reply(r) ==
  IF "endSession" \in allowed_errors(r.type)
  THEN [ZeroReply EXCEPT !.kind = "endSession"]
  ELSE [ZeroReply EXCEPT !.answer = answer_kind(r.type)]

(* What stk_core_respond sends for an action: a singleton, or {} when the  *)
(* action or the answer is refused.                                        *)
Action == {"answer", "cancel"} \cup ErrorKind

\* Mutant: the errors are sent whether the type allows them or not.
respond_reply_unchecked(r, action, a) ==
  CASE action = "answer" -> check_answer(r, a)
    [] action = "cancel" -> {fallback_reply(r)}
    [] OTHER -> {[ZeroReply EXCEPT !.kind = action]}

respond_reply(r, action, a) ==
  CASE action = "answer" -> check_answer(r, a)
    [] action = "cancel" -> {fallback_reply(r)}
    [] OTHER -> {[ZeroReply EXCEPT !.kind = e] : e \in {action} \cap allowed_errors(r.type)}

(***************************************************************************)
(* External: what ofono's agent code takes.  Anything else makes it drop   *)
(* the agent.                                                              *)
(***************************************************************************)
OfonoTakesString(r, s) ==
  /\ s.valid
  /\ r.type = "input" => r.min_length <= s.chars /\ s.chars <= r.max_length
  /\ r.type = "digits" => /\ r.min_length <= s.bytes /\ s.bytes <= r.max_length
                          /\ s.charset # "text"
                          /\ r.hide_typing => s.charset # "plus"
  /\ r.type \in {"key", "digit", "quickDigit"} => s.chars = 1
  /\ r.type \in {"digit", "quickDigit"} => s.charset # "text"
  /\ r.type = "quickDigit" => s.charset # "plus"

OfonoAccepts(r, reply) ==
  \/ reply.kind \in allowed_errors(r.type)
  \/ /\ reply.kind = "answer"
     /\ reply.answer = answer_kind(r.type)
     /\ reply.answer = "index" => reply.index < r.n_items
     /\ reply.answer = "string" => OfonoTakesString(r, reply.string)

(***************************************************************************)
(* Correctness of the checks.                                              *)
(***************************************************************************)
(* "Each answer" is checked "the way ofono will check it" (stkcore.h): the *)
(* user is refused what ofono would refuse, and nothing else; the user's   *)
(* choice reaches the SIM unchanged, and nobody's choice is never a yes.   *)
OfonoWouldTake(request, answer) ==
  LET kind == answer_kind(request.type)
  IN  \/ kind = "none"
      \/ kind = "string" /\ answer.has_string /\ OfonoTakesString(request, answer.string)
      \/ kind = "index" /\ answer.has_index /\ answer.index \in 0..(request.n_items - 1)
      \/ kind = "boolean" /\ answer.has_boolean

KeepsChoice(request, answer) ==
  LET replies == respond_reply(request, "answer", answer)
  IN  /\ OfonoWouldTake(request, answer) <=> replies # {}
      /\ \A reply \in replies :
           /\ reply.answer = "index" => reply.index = answer.index
           /\ reply.answer = "boolean" => reply.boolean = answer.boolean
           /\ reply.answer = "string" => reply.string = answer.string
      /\ fallback_reply(request).kind = "endSession" \/ ~fallback_reply(request).boolean
=============================================================================
