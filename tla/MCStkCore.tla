----------------------------- MODULE MCStkCore -----------------------------
(***************************************************************************)
(* Small instances of StkCore.  The requests cover a type that may end its *)
(* session and one that takes no error at all; the answers an index in and *)
(* out of range and the wrong kind of answer.  What the answer checks of    *)
(* StkTypes do is looked at for every type and answer of a small range.    *)
(***************************************************************************)
EXTENDS StkCore, TLC

RequestOf(type, sim, session) ==
  [type |-> type, sim |-> sim, session |-> session, n_items |-> 2,
   min_length |-> 1, max_length |-> 2, hide_typing |-> FALSE]

NoAnswer == [has_index |-> FALSE, index |-> 0, has_string |-> FALSE, string |-> EmptyString,
             has_boolean |-> FALSE, boolean |-> FALSE]
IndexAnswer(i) == [NoAnswer EXCEPT !.has_index = TRUE, !.index = i]
BooleanAnswer == [NoAnswer EXCEPT !.has_boolean = TRUE, !.boolean = TRUE]

\* For the daemon: a choice and a question on one SIM, a text on another.
MCRequests ==
  {RequestOf("selection", 0, TRUE), RequestOf("confirmLaunchBrowser", 0, FALSE),
   RequestOf("displayText", 1, FALSE)}
MCAnswers == {NoAnswer, IndexAnswer(1), IndexAnswer(2), BooleanAnswer}

\* For the runs whose callbacks call back: what is answered matters less
\* there than who calls when.
MCFewRequests == {RequestOf("displayText", 0, FALSE), RequestOf("confirmLaunchBrowser", 0, TRUE)}
MCOneAnswer == {BooleanAnswer}

\* For the run without liveness: invocations are interchangeable.
TokenSymmetry == Permutations(Token)

-----------------------------------------------------------------------------
\* Menus of up to two items, answers and bounds of up to three bytes.
MaxItems == 2
MaxLength == 3

\* Characters take one byte or more; the digit alphabets are ASCII.
Strings ==
  {s \in [bytes: 0..MaxLength, chars: 0..MaxLength, charset: {"digits", "plus", "text"},
          valid: BOOLEAN] :
     /\ s.chars <= s.bytes
     /\ s.bytes = 0 <=> s.chars = 0
     /\ s.charset # "text" => s.chars = s.bytes /\ s.valid
     /\ s.bytes = 0 => s.charset = "digits"}

TypesOf(kind) == {t \in RequestType : answer_kind(t) = kind}

RequestsTo(types, items, lengths) ==
  [type: types, sim: {0}, session: {FALSE}, n_items: items,
   min_length: lengths, max_length: lengths, hide_typing: BOOLEAN]

AllRequests ==
  RequestsTo(TypesOf("index"), 0..MaxItems, {0})
    \cup RequestsTo(TypesOf("string"), {0}, 0..MaxLength)
    \cup RequestsTo(TypesOf("none") \cup TypesOf("boolean"), {0}, {0})

\* The user interface's value is absent, a number, a boolean or a string.
AllAnswers ==
  {NoAnswer}
    \cup {IndexAnswer(i) : i \in -1..(MaxItems + 1)}
    \cup {[NoAnswer EXCEPT !.has_boolean = TRUE, !.boolean = b] : b \in BOOLEAN}
    \cup {[NoAnswer EXCEPT !.has_string = TRUE, !.string = s] : s \in Strings}

(* The checks do not depend on the state: they are looked at once, before  *)
(* the first request, for every type and answer of the small range.        *)
ChoiceIsKept ==
  count = 0 => \A request \in AllRequests, answer \in AllAnswers : KeepsChoice(request, answer)
=============================================================================
