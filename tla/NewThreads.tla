------------------------------ MODULE NewThreads ------------------------------
(***************************************************************************)
(* A new thread from the chat (internal/daemon/projects.go): a button arms *)
(* the chat, the next text is the first prompt.  The prompt goes to the    *)
(* desktop app when it may be used and to the app-server else, and is      *)
(* looked for in thread/list after the desktop took it.                    *)
(*                                                                         *)
(* Texts are handled at once; every statement on daemon_state is a step.   *)
(* An arming is the number of the press, a thread that of its creation.    *)
(***************************************************************************)
EXTENDS Naturals, Sequences, FiniteSets

CONSTANTS
  Texts,               \* the prompts written, each delivered once
  Scopes,              \* the topics of the chat
  Projects, Temporary, \* Temporary: "Chats", whose threads have no project
  Includes,            \* pairs <<x, y>>: prompt y contains prompt x
  MaxPresses, MaxMishaps  \* bounds

ASSUME NewThreadsAssumption ==
  /\ Temporary \in Projects /\ \A x \in Texts : <<x, x>> \in Includes
  /\ MaxPresses \in Nat /\ MaxMishaps \in Nat

Chat == "chat"     \* the fallback key
NoArming == 0
Keys == Scopes \cup {Chat}

VARIABLES
  armings,   \* presses: the project of each
  pending,   \* Keys -> arming, or NoArming
  press,     \* the button's handler between its two writes: its scope, or nothing
  gone,      \* history: armings a text took with both keys written, and has removed
  text,      \* Texts -> [at, scope, arming, fresh, whole, left, thread]
  threads,   \* Codex: [by, project, ran]
  origin,    \* turns marked as input of the chat
  mishaps
newVars == <<armings, pending, press, gone, text, threads, origin, mishaps>>

Unread == [at |-> "sent", scope |-> Chat, arming |-> NoArming, fresh |-> FALSE,
           whole |-> FALSE, left |-> {}, thread |-> 0]
NewInit ==
  /\ armings = <<>> /\ pending = [k \in Keys |-> NoArming] /\ press = <<>>
  /\ gone = {} /\ text = [x \in Texts |-> Unread] /\ threads = <<>>
  /\ origin = {} /\ mishaps = 0

(***************************************************************************)
(* The button.                                                             *)
(***************************************************************************)
\* armProjectNewThread: the key of the topic, then that of the chat.
Arm ==
  /\ press = <<>> /\ Len(armings) < MaxPresses
  /\ \E p \in Projects, k \in Scopes :
       /\ armings' = Append(armings, p)
       /\ press' = <<k>> /\ pending' = [pending EXCEPT ![k] = Len(armings)']
  /\ UNCHANGED <<gone, text, threads, origin, mishaps>>
ArmChat ==
  /\ press # <<>> /\ press' = <<>> /\ pending' = [pending EXCEPT ![Chat] = Len(armings)]
  /\ UNCHANGED <<armings, gone, text, threads, origin, mishaps>>

(***************************************************************************)
(* The text.                                                               *)
(***************************************************************************)
TextAt(x, place) == text[x].at = place
Goto(x, place) == text' = [text EXCEPT ![x].at = place]
Mishap == mishaps < MaxMishaps /\ mishaps' = mishaps + 1
Project(x) == armings[text[x].arming]

\* Mutants (see PROJECT.json).
Listed_Own(x) == {}
Matches_Any(x, n) == Project(x) = Temporary \/ threads[n].project = Project(x)

\* pendingNewThreadState: newThreadStateTTL may have passed.
Pending(k) == IF pending[k] # NoArming THEN pending[k] ELSE pending[Chat]
Read(x) ==
  /\ TextAt(x, "sent")
  /\ \E k \in Scopes, fresh \in BOOLEAN :
       LET i == Pending(k) IN
       text' = [text EXCEPT ![x] = IF i = NoArming THEN [Unread EXCEPT !.at = "routed"] ELSE
                  [at |-> "clear", scope |-> k, arming |-> i, fresh |-> fresh,
                   whole |-> press = <<>> \/ i < Len(armings), left |-> {}, thread |-> 0]]
  /\ UNCHANGED <<armings, pending, press, gone, threads, origin, mishaps>>
\* clearPendingNewThreadState: the topic's key, the chat's, then a list of the others.
Removed(k) == pending' = [pending EXCEPT ![k] = NoArming]
ClearOwn(x) ==
  /\ TextAt(x, "clear") /\ Goto(x, "clearChat") /\ Removed(text[x].scope)
  /\ UNCHANGED <<armings, press, gone, threads, origin, mishaps>>
ClearChat(x) ==
  /\ TextAt(x, "clearChat") /\ Goto(x, "list") /\ Removed(Chat)
  /\ UNCHANGED <<armings, press, gone, threads, origin, mishaps>>
Listed(x) == {k \in Scopes : pending[k] # NoArming}
List(x) ==
  /\ TextAt(x, "list") /\ text' = [text EXCEPT ![x].at = "others", ![x].left = Listed(x)]
  /\ UNCHANGED <<armings, pending, press, gone, threads, origin, mishaps>>
ClearOther(x) ==
  /\ TextAt(x, "others")
  /\ \E k \in text[x].left : Removed(k) /\ text' = [text EXCEPT ![x].left = @ \ {k}]
  /\ UNCHANGED <<armings, press, gone, threads, origin, mishaps>>
Cleared(x) ==
  /\ TextAt(x, "others") /\ text[x].left = {}
  /\ gone' = gone \cup {i \in {text[x].arming} : text[x].whole}
  /\ text' = [text EXCEPT ![x] = [Unread EXCEPT !.at = IF text[x].fresh THEN "create" ELSE "expired",
                                                !.arming = text[x].arming]]
  /\ UNCHANGED <<armings, pending, press, threads, origin, mishaps>>

\* createThreadFromProjectPrompt: a session is there or not; what the desktop does not take goes
\* to the app-server, except for a temporary chat.
AfterDesktop(x) == IF Project(x) = Temporary THEN {"refuse"} ELSE {"start"}
AfterTaken(x) == {"find"}
NewThread(x, ran) == threads' = Append(threads, [by |-> x, project |-> Project(x), ran |-> ran])
Create(x) ==
  /\ TextAt(x, "create")
  /\ \/ NewThread(x, TRUE) /\ UNCHANGED mishaps /\ \E next \in AfterTaken(x) : Goto(x, next)
     \/ \E next \in AfterDesktop(x) : Goto(x, next) /\ UNCHANGED <<threads, mishaps>>
     \/ /\ Mishap /\ NewThread(x, TRUE)     \* it timed out, but the prompt was taken
        /\ \E next \in AfterDesktop(x) : Goto(x, next)
  /\ UNCHANGED <<armings, pending, press, gone, origin>>
\* newestMatchingDesktopCreatedThread
Matches(x, n) ==
  /\ Project(x) = Temporary \/ threads[n].project = Project(x)
  /\ threads[n].ran /\ <<x, threads[n].by>> \in Includes
Candidates(x) == {n \in DOMAIN threads : Matches(x, n)}
Newest(set) == CHOOSE n \in set : \A o \in set : o <= n
\* findDesktopCreatedThread gives up after 20 seconds; thread/list may lag behind.
Find(x) ==
  /\ TextAt(x, "find")
  /\ \/ /\ Candidates(x) # {} /\ LET n == Newest(Candidates(x)) IN
             origin' = origin \cup {n} /\ text' = [text EXCEPT ![x].at = "show", ![x].thread = n]
        /\ UNCHANGED mishaps
     \/ Mishap /\ UNCHANGED <<origin>> /\ \E next \in AfterDesktop(x) : Goto(x, next)
  /\ UNCHANGED <<armings, pending, press, gone, threads>>
Refuse(x) ==
  /\ TextAt(x, "refuse") /\ Goto(x, "failed")
  /\ UNCHANGED <<armings, pending, press, gone, threads, origin, mishaps>>

\* createThreadFromProjectPromptViaAppServer: no session, thread/start, turn/start.
ThreadStart(x) ==
  /\ TextAt(x, "start")
  /\ \/ NewThread(x, FALSE) /\ text' = [text EXCEPT ![x].at = "turn", ![x].thread = Len(threads)'] /\ UNCHANGED mishaps
     \/ Goto(x, "failed") /\ Mishap /\ UNCHANGED threads
  /\ UNCHANGED <<armings, pending, press, gone, origin>>
\* An answer that is lost leaves the turn running.
TurnStart(x) ==
  /\ TextAt(x, "turn")
  /\ \/ threads' = [threads EXCEPT ![text[x].thread].ran = TRUE] /\ Goto(x, "mark") /\ UNCHANGED mishaps
     \/ /\ Mishap /\ Goto(x, "retry")
        /\ \E ran \in BOOLEAN : threads' = [threads EXCEPT ![text[x].thread].ran = ran]
  /\ UNCHANGED <<armings, pending, press, gone, origin>>
MarkOrigin(x) ==
  /\ TextAt(x, "mark") /\ Goto(x, "show") /\ origin' = origin \cup {text[x].thread}
  /\ UNCHANGED <<armings, pending, press, gone, threads, mishaps>>
\* syncThreadPanelToTarget
Show(x) ==
  /\ TextAt(x, "show") /\ Goto(x, "shown")
  /\ UNCHANGED <<armings, pending, press, gone, threads, origin, mishaps>>

TextStep(x) ==
  \/ ClearOwn(x) \/ ClearChat(x) \/ List(x) \/ ClearOther(x) \/ Cleared(x)
  \/ Create(x) \/ Find(x) \/ Refuse(x) \/ ThreadStart(x) \/ TurnStart(x) \/ MarkOrigin(x) \/ Show(x)
NewNext ==
  \/ Arm \/ ArmChat
  \/ \E x \in Texts : Read(x) \/ TextStep(x)

NewSpec == NewInit /\ [][NewNext]_newVars

(***************************************************************************)
(* Properties.                                                             *)
(***************************************************************************)
Runs(x) == {n \in DOMAIN threads : threads[n].by = x /\ threads[n].ran}

\* A press serves the texts that read it before it was removed, and none that comes later: no
\* key is left behind, of another topic or of the chat, that would make a thread of an ordinary
\* reply (clearPendingNewThreadState).  A text that comes between the two writes of the press
\* leaves the second.
SpentPressStays == [][\A x \in Texts : text'[x].arming # text[x].arming => text'[x].arming \notin gone]_newVars

\* A prompt runs in one thread, unless an answer was lost: neither the desktop's thread that is
\* found late nor a second attempt runs it again (createThreadFromProjectPrompt).
PromptRunsOnce == \A x \in Texts : Cardinality(Runs(x)) <= 1 + mishaps

\* The thread shown for a prompt is the one that runs it, and its turn is known as the chat's,
\* though another prompt is given to the same project at the same time
\* (newestMatchingDesktopCreatedThread); a prompt that is contained in another may get the
\* other's thread.
ShowsItsOwn ==
  \A x \in Texts :
    TextAt(x, "show") =>
      /\ text[x].thread \in origin /\ threads[text[x].thread].ran
      /\ (\A y \in Texts \ {x} : <<x, y>> \notin Includes) => threads[text[x].thread].by = x

\* A prompt has one thread, and that one is shown for it.
PromptKept == PromptRunsOnce /\ ShowsItsOwn

\* Every prompt taken for a new thread is answered: by a thread in the chat or by a word that
\* it expired, failed or is to be sent again, whatever of the desktop, the list and the
\* app-server does not answer (maybeConsumeNewThreadPromptFromSource).
PromptIsAnswered ==
  \A x \in Texts : TextAt(x, "clear") ~> text[x].at \in {"expired", "failed", "retry", "shown"}

\* A press serves its prompts: all of them, and no other text.
PressServes == SpentPressStays /\ PromptIsAnswered
=============================================================================
