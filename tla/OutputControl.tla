---------------------------- MODULE OutputControl -----------------------------
(***************************************************************************)
(* Output transactions of the control socket (output_control.rs) and what  *)
(* the main loop keeps about them: the two request queues, the request     *)
(* that waits as a render barrier, the configuration that waits for the    *)
(* user's confirmation, the published snapshot and the persisted file.     *)
(*                                                                         *)
(* A configuration gives every output a mode (Off when it is disabled) and *)
(* a place in the desktop.  A request carries the serial of the snapshot   *)
(* its client read; serials only grow, so `fresh' stands for "its serial   *)
(* is the current one" and is taken away by the publication that moves the *)
(* serial.  The token of a confirmation is treated the same way.           *)
(***************************************************************************)
EXTENDS Naturals, Sequences

CONSTANTS
    Outputs,          \* connectors of the DRM device
    Modes, Off,       \* hardware states of an output; Off is not a mode
    Places,           \* positions, scales and transforms in the desktop
    Boot,             \* the configuration the session starts with
    Layouts,          \* the configurations clients ask for
    Persistent,       \* values of the request's persistent member
    None,             \* Option::None
    MaxRequests,      \* apply requests one behaviour may contain
    MaxAnswers        \* confirm and rollback requests

\* What RuntimeOutputConfiguration says of one output.
Settings == [hw : Modes \cup {Off}, place : Places]

\* RuntimeOutputConfiguration.
Configurations == [Outputs -> Settings]

ASSUME ControlAssumption ==
    /\ Off \notin Modes
    /\ Boot \in Configurations /\ Layouts \subseteq Configurations
    /\ Persistent \subseteq BOOLEAN
    /\ MaxRequests \in Nat /\ MaxAnswers \in Nat

\* PendingOutputApply: the settings of the outputs the client was shown.
Requests == [id : 1..MaxRequests,
             wanted : UNION {[seen -> Settings] : seen \in SUBSET Outputs},
             confirm : BOOLEAN, persist : BOOLEAN, fresh : BOOLEAN]

\* PendingOutputConfirmation.
Answers == [id : (MaxRequests + 1)..(MaxRequests + MaxAnswers),
            action : {"keep", "rollback"}, fresh : BOOLEAN]

\* ActiveOutputConfirmation; `expired' once its deadline has passed.
Confirmations == [rollback : Configurations, persist : BOOLEAN, expired : BOOLEAN]

\* Option::None is told from Some.
ASSUME ControlNone == None \notin Configurations \cup Requests \cup Confirmations

VARIABLES
    applies,          \* RuntimeState::pending_output_applies
    answers,          \* RuntimeState::pending_output_confirmations
    ready,            \* ready_output_apply
    succeeded,        \* pending_output_success and its confirmation twin
    confirming,       \* active_output_confirmation
    config,           \* output_configuration
    file,             \* what a restart reads from --output-config
    published,        \* OutputControlSnapshot
    open,             \* accepted requests without an answer
    sent, answered    \* requests of each kind so far

requestVars == <<applies, answers, ready, succeeded, open>>
configVars == <<confirming, config, file>>
clientVars == <<sent, answered>>
controlVars == <<requestVars, configVars, clientVars, published>>

ControlTypeOK ==
    /\ applies \in Seq(Requests) /\ Len(applies) <= MaxRequests
    /\ answers \in Seq(Answers) /\ Len(answers) <= MaxAnswers
    /\ ready \in Requests \cup {None}
    /\ succeeded \subseteq open
    /\ open \subseteq 1..(MaxRequests + MaxAnswers)
    /\ confirming \in Confirmations \cup {None}
    /\ {config, file} \subseteq Configurations
    /\ sent \in 0..MaxRequests /\ answered \in 0..MaxAnswers

ControlInit ==
    /\ applies = <<>> /\ answers = <<>> /\ ready = None
    /\ succeeded = {} /\ open = {}
    /\ confirming = None /\ config = Boot /\ file = Boot
    /\ sent = 0 /\ answered = 0

-----------------------------------------------------------------------------
(* Client workers, and the channel callback of startup.rs.                 *)

\* "outputs.apply": a complete configuration for the outputs of the current
\* snapshot, under its serial.
RequestApply(layout, confirm, persist) ==
    /\ sent < MaxRequests
    /\ sent' = sent + 1
    /\ applies' = Append(applies,
                         [id |-> sent + 1,
                          wanted |-> [o \in published.scanned |-> layout[o]],
                          confirm |-> confirm, persist |-> persist, fresh |-> TRUE])
    /\ open' = open \cup {sent + 1}
    /\ UNCHANGED <<answers, ready, succeeded, configVars, published, answered>>

\* "outputs.confirm" and "outputs.rollback" with the token of the snapshot.
RequestAnswer(action) ==
    /\ answered < MaxAnswers
    /\ answered' = answered + 1
    /\ answers' = Append(answers,
                         [id |-> MaxRequests + answered + 1, action |-> action,
                          fresh |-> confirming # None /\ published.waiting])
    /\ open' = open \cup {MaxRequests + answered + 1}
    /\ UNCHANGED <<applies, ready, succeeded, configVars, published, sent>>

\* The deadline of the confirmation passes.
ConfirmationExpires ==
    /\ confirming # None /\ ~confirming.expired
    /\ confirming' = [confirming EXCEPT !.expired = TRUE]
    /\ UNCHANGED <<requestVars, config, file, clientVars, published>>

-----------------------------------------------------------------------------
(* What the steps of the main loop do to these variables.                  *)

\* The serial moves: no queued request names the current one any more.
Outdated(request) == [request EXCEPT !.fresh = FALSE]
OutdatedAll(queue) == [i \in DOMAIN queue |-> Outdated(queue[i])]

\* publish: the serial moves only when the state differs.
Publish(state) ==
    /\ published' = state
    /\ IF state = published
         THEN UNCHANGED <<applies, ready>>
         ELSE /\ applies' = OutdatedAll(applies)
              /\ ready' = IF ready = None THEN None ELSE Outdated(ready)

\* An error reply.
Refuse(request) == open' = open \ {request.id}

\* The replies that waited for the publication.
AnswerSucceeded ==
    /\ open' = open \ succeeded
    /\ succeeded' = {}

\* The confirmation is taken back: by its deadline, on request, or because
\* it could not be persisted.
RollBack ==
    /\ config' = confirming.rollback
    /\ confirming' = None

\* "outputs.confirm" is honoured.
Keep ==
    /\ confirming' = None
    /\ UNCHANGED config

\* PreparedOutputConfig::commit(new): synced; or not, with the rename done or not.
Persist(wanted, new) == file' = IF wanted THEN new ELSE file
PersistFails(new) == file' \in {file, new}

\* Mutant: a transaction is staged while another awaits its confirmation.
MayStage_Always == TRUE

\* The confirmation_pending guard of an apply request.
MayStage == confirming = None

\* configuration_from_output_request: outputs that are not connected keep
\* their settings.
Staged(request) ==
    [o \in Outputs |-> IF o \in DOMAIN request.wanted THEN request.wanted[o] ELSE config[o]]

\* The checks of configuration_from_output_request against the connectors.
ValidRequest(request, seen) ==
    /\ DOMAIN request.wanted = seen
    /\ \E o \in seen : request.wanted[o].hw # Off

\* A staged configuration takes effect.
Accept(request) ==
    /\ config' = Staged(request)
    /\ IF request.confirm
         THEN /\ confirming' = [rollback |-> config, persist |-> request.persist,
                                expired |-> FALSE]
              /\ UNCHANGED file
         ELSE /\ Persist(request.persist, Staged(request))
              /\ UNCHANGED confirming
    /\ succeeded' = succeeded \cup {request.id}
    /\ UNCHANGED open

\* It takes effect, is final, and cannot be persisted: the client is told so.
AcceptUnpersisted(request) ==
    /\ request.persist /\ ~request.confirm
    /\ config' = Staged(request)
    /\ PersistFails(Staged(request))
    /\ Refuse(request)
    /\ UNCHANGED <<confirming, succeeded>>

=============================================================================
