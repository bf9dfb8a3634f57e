------------------------------ MODULE Questions ------------------------------
(***************************************************************************)
(* The questions an event asks of those who register, edited by the        *)
(* organiser on two devices while guests read them and answer. A save and  *)
(* a registration each lock the row of the event, and each names the       *)
(* version it was made for. A question is what its answers are checked     *)
(* against; its wording may change freely and is left out.                 *)
(***************************************************************************)
EXTENDS Integers, FiniteSets

CONSTANTS
  Guests,         \* those who register
  Devices,        \* those of the organiser
  QuestionIds,    \* ids of events.registration_questions
  MaxVersion      \* bound on events.version

VARIABLES
  version,        \* events.version
  questions,      \* the questions by id, NoQuestion where there is none
  dropped,        \* the ids that were deleted
  editor,         \* what a device of the organiser loaded
  read,           \* what a guest's page loaded
  answers         \* registration_answers of a guest

vars == <<version, questions, dropped, editor, read, answers>>

NoQuestion == [kind |-> "none", options |-> {}, required |-> FALSE]
NotRegistered == [q \in QuestionIds |-> "not registered"]

Shapes ==
  [kind : {"text", "boolean"}, options : {{}}, required : BOOLEAN]
    \cup [kind : {"single_choice"}, options : {{"x"}, {"x", "y"}}, required : BOOLEAN]

Answers == {"none", "blank", "words", "yes", "x", "y"}

Existing == {q \in QuestionIds : questions[q] # NoQuestion}
Registered == {g \in Guests : answers[g] # NotRegistered}

\* answer_count: an answer left blank counts as well.
AnswerCount(q) == Cardinality({g \in Registered : answers[g][q] # "none"})

Init ==
  /\ version = 1
  /\ questions = [q \in QuestionIds |-> NoQuestion] /\ dropped = {}
  /\ editor = [d \in Devices |-> [version |-> 1, questions |-> questions]]
  /\ read = [g \in Guests |-> [version |-> 1, questions |-> questions]]
  /\ answers = [g \in Guests |-> NotRegistered]

-----------------------------------------------------------------------------
(* The organiser *)

Loaded == [version |-> version, questions |-> questions]

OpenEditor(d) ==
  /\ editor[d] # Loaded /\ editor' = [editor EXCEPT ![d] = Loaded]
  /\ UNCHANGED <<version, questions, dropped, read, answers>>

\* The whole list a device sends: what it loaded with one question added, removed or changed.
Sent(d) ==
  LET old == editor[d].questions IN
    {[old EXCEPT ![q] = NoQuestion] : q \in QuestionIds \ dropped}
      \cup {[old EXCEPT ![q] = s] : q \in QuestionIds \ dropped, s \in Shapes}

\* The ids the list refers to exist, and those that are new were never used.
IdsAreKnown(d, list) ==
  \A q \in QuestionIds : editor[d].questions[q] # NoQuestion /\ list[q] # NoQuestion => q \in Existing

Removed(list) == {q \in Existing : list[q] = NoQuestion}
Reshaped(list) ==
  {q \in Existing \ Removed(list) : list[q].kind # questions[q].kind \/ list[q].options # questions[q].options}

\* Nothing that was answered is removed, or changed in what its answers mean.
AnswersAreKept(list) == \A q \in Removed(list) \cup Reshaped(list) : AnswerCount(q) = 0
AnswersAreKept_OnRemoval(list) == \A q \in Removed(list) : AnswerCount(q) = 0
KeepsAnswers(list) == AnswersAreKept(list)

\* update with nothing but the list: the row of the event is written all the same, so that its
\* trigger moves the version.
SaveQuestions(d, list) ==
  /\ list # questions /\ version < MaxVersion
  /\ editor[d].version = version
  /\ IdsAreKnown(d, list) /\ KeepsAnswers(list)
  /\ questions' = list
  /\ dropped' = dropped \cup Removed(list)
  /\ version' = version + 1
  /\ UNCHANGED <<editor, read, answers>>

\* Another part of the event is saved.
SaveElse(d) ==
  /\ version < MaxVersion /\ editor[d].version = version
  /\ version' = version + 1
  /\ UNCHANGED <<questions, dropped, editor, read, answers>>

-----------------------------------------------------------------------------
(* The guests *)

ReadEvent(g) ==
  /\ g \notin Registered /\ read[g] # Loaded
  /\ read' = [read EXCEPT ![g] = Loaded]
  /\ UNCHANGED <<version, questions, dropped, editor, answers>>

Empty(a) == a \in {"none", "blank"}

Fits(q, a) ==
  CASE questions[q].kind = "text" -> a \notin {"yes"}
    [] questions[q].kind = "boolean" -> a = "yes"
    [] questions[q].kind = "single_choice" -> a \in questions[q].options
    [] OTHER -> FALSE

\* validateAnswers: against the questions as they are now.
Valid(form) ==
  \A q \in QuestionIds :
    IF q \notin Existing THEN form[q] = "none"
    ELSE IF Empty(form[q]) THEN ~questions[q].required ELSE Fits(q, form[q])

\* register: one row for every question the form answers.
Answering(g, form) == [answers EXCEPT ![g] = form]

Register(g, form) ==
  /\ g \notin Registered
  /\ read[g].version = version
  /\ Valid(form)
  /\ answers' = Answering(g, form)
  /\ UNCHANGED <<version, questions, dropped, editor, read>>

Next ==
  \/ \E d \in Devices : \/ OpenEditor(d) \/ SaveElse(d)
                        \/ \E list \in Sent(d) : SaveQuestions(d, list)
  \/ \E g \in Guests : \/ ReadEvent(g)
                       \/ \E form \in [QuestionIds -> Answers] : Register(g, form)

Spec == Init /\ [][Next]_vars

-----------------------------------------------------------------------------
(* Properties *)

\* What a guest answered is an answer to the question the guest had read, and stays one: the
\* host never reads it under a question of another kind or with other options. The version a
\* registration names, the version every save of the list moves and the lock on what was
\* answered hold it together (register, update, reconcileRegistrationQuestions).
AnswersStayTrue ==
  \A g \in Registered, q \in QuestionIds : ~Empty(answers[g][q]) =>
    /\ Fits(q, answers[g][q])
    /\ questions[q].kind = read[g].questions[q].kind
    /\ questions[q].options = read[g].questions[q].options

=============================================================================
