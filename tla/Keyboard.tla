------------------------------- MODULE Keyboard -------------------------------
(***************************************************************************)
(* Where a key transition goes: to the shortcut engine, to Flutter, or on  *)
(* to the focused client, and what happens to the keys that are down when  *)
(* the route changes under them: a lock, an unlock, a VT switch, a new     *)
(* keymap, new shortcuts, a new Flutter engine or a shell that starts to   *)
(* capture the keyboard.  Two sources, the physical keyboards and the      *)
(* shell's on-screen keyboard, enter the same router                       *)
(* (wayland_frontend/input.rs).                                            *)
(*                                                                         *)
(* A transition is one call, so the router is an operator on records and   *)
(* the taps of the on-screen keyboard are several transitions in one step. *)
(* Smithay's seat is external: it keeps the set of pressed keys and tells  *)
(* the client what the filter forwards.  The model is of the Flutter loop, *)
(* in which flutter_active is always true.  The physical keyboards are     *)
(* one.  Left out: the key repeat, keymaps and compose, the input method's *)
(* own keys, pointers and touch.                                           *)
(***************************************************************************)
EXTENDS ShortcutEngine

CONSTANT ShellKeys    \* keys of the on-screen keyboard

ASSUME KeyboardAssumption == ShellKeys \subseteq Keys

VARIABLES
    kb,               \* the keyboard half of RuntimeState, see Router
    locked,           \* authentication.locked()
    applied,          \* session_lock_applied
    capture,          \* shell_captures_keyboard() and no keyboard grab
    physical,         \* keys that fingers hold down
    abandoned         \* history: keys the on-screen keyboard held when they were retired

vars == <<kb, locked, applied, capture, physical, abandoned>>

\* active and retired are flutter_keyboard_keys and retired_keyboard_keys, shell is
\* shell_keyboard_keys; seat, client and flutter are what the seat, the focused
\* client and the Flutter engine believe is down.  locks says that authentication.lock
\* was called.  stray is history, see Press, Transition and Settled.
Router == [engine : Engine, active : SUBSET Keys, retired : SUBSET Keys, shell : SUBSET Keys,
           seat : SUBSET Keys, client : SUBSET Keys, flutter : SUBSET Keys, locks : BOOLEAN,
           stray : SUBSET Keys]

TypeOK ==
    /\ kb \in Router /\ kb.locks = FALSE
    /\ locked \in BOOLEAN /\ applied \in BOOLEAN /\ capture \in BOOLEAN
    /\ physical \subseteq Keys /\ abandoned \subseteq Keys

Init ==
    /\ \E s \in Shortcuts :
          kb = [engine |-> FreshEngine(s), active |-> {}, retired |-> {}, shell |-> {},
                seat |-> {}, client |-> {}, flutter |-> {}, locks |-> FALSE, stray |-> {}]
    /\ locked \in BOOLEAN /\ applied = FALSE /\ capture = FALSE
    /\ physical = {} /\ abandoned = {}

\* secure_session_locked.
Secure(r) == applied \/ locked \/ r.locks

Moved(set, k, pressed) == IF pressed THEN set \cup {k} ELSE set \ {k}

\* retired_key_consumes_transition: a retired key is swallowed up to its release.
RetiredConsumes(r, k) == k \in r.retired

\* Mutant: a retired key stays retired after its release.
Retire_ForEver(r, k, pressed) == r

Retire(r, k, pressed) == IF pressed THEN r ELSE [r EXCEPT !.retired = @ \ {k}, !.active = @ \ {k}]

\* route_flutter_key_transition: Flutter gets the keys it owns, and new presses
\* while it captures them.
FlutterOwns(r, k, pressed) == k \in r.active \/ (pressed /\ (Secure(r) \/ capture))

\* process_flutter_keyboard_transition with the seat's filter: to Flutter, to
\* nobody, or to the client.
ProcessFlutterKeyboardTransition(r, k, pressed) ==
    LET seated == [r EXCEPT !.seat = Moved(@, k, pressed)]
    IN IF RetiredConsumes(r, k) THEN Retire(seated, k, pressed)
       ELSE IF FlutterOwns(r, k, pressed)
            THEN [seated EXCEPT !.active = Moved(@, k, pressed), !.flutter = Moved(@, k, pressed)]
            ELSE [seated EXCEPT !.client = Moved(@, k, pressed)]

\* intercept_native_escape and execute_shortcut_disposition: whether the shortcut
\* engine keeps the transition.  In a secure session everything that is not
\* forwarded is kept; otherwise an action may decline its key, and the release of
\* a modifier that ends the switcher goes on.
Intercepts(r, disposition, declines) ==
    IF Secure(r) THEN disposition # "forward"
    ELSE /\ disposition \notin {"forward", "switcher_end_forward"}
         /\ ~(disposition \in Declinable /\ declines)

\* process_keyboard_transition, without the branches for flutter_active = false,
\* which the Flutter loop never takes.  A modifier strays when the locked session
\* swallows the release with which it ends the switcher.
Transition(r, k, pressed, declines) ==
    LET answer == Observe(r.engine, k, pressed)
        kept == Intercepts(r, answer.disposition, declines)
        observed == [r EXCEPT !.engine = IF kept \/ ~pressed \/ Secure(r) THEN answer.engine
                                         ELSE PassThroughKey(answer.engine, k),
                              !.locks = @ \/ answer.disposition = "lock",
                              !.stray = IF kept /\ answer.disposition = "switcher_end_forward"
                                        THEN @ \cup {k} ELSE @]
    IN IF kept THEN observed ELSE ProcessFlutterKeyboardTransition(observed, k, pressed)

\* reset_input_devices: forget the shortcuts, retire every key that is down and
\* release it to Flutter or to the client, whoever was told of its press.
ResetInputDevices(r) ==
    LET toFlutter == r.active
        toClient == r.seat \ (r.active \cup r.retired)
    IN [r EXCEPT !.engine = FreshEngine(@.shortcuts), !.active = {}, !.shell = {},
                 !.retired = @ \cup r.seat \cup r.active,
                 !.seat = {}, !.flutter = @ \ (r.seat \cap toFlutter), !.client = @ \ toClient]

\* A key strays no more once nobody remembers a press of it.
Settled(r) ==
    [r EXCEPT !.stray = @ \cap (r.seat \cup r.client \cup r.flutter \cup r.retired
                                \cup CapturedKeys(r.engine))]

\* What a transition leaves, with the lock that a shortcut asked for.
Commit(r) ==
    /\ kb' = Settled([r EXCEPT !.locks = FALSE]) /\ locked' = (locked \/ r.locks)
    /\ abandoned' = abandoned \cap r.retired

Reset ==
    /\ kb' = ResetInputDevices(kb)
    /\ abandoned' = abandoned \cup kb.shell

-----------------------------------------------------------------------------
\* A physical key goes down or up.  Nothing refuses a key that the on-screen keyboard
\* has down in the seat, as ShellPress does the other way round; it strays, because
\* nothing tells its two presses and two releases apart.
Press(k) ==
    /\ k \notin physical
    /\ physical' = physical \cup {k}
    /\ \E declines \in BOOLEAN :
          Commit(Transition([kb EXCEPT !.stray = @ \cup ({k} \cap kb.seat)], k, TRUE, declines))
    /\ UNCHANGED <<applied, capture>>

Release(k) ==
    /\ k \in physical
    /\ physical' = physical \ {k}
    /\ \E declines \in BOOLEAN : Commit(Transition(kb, k, FALSE, declines))
    /\ UNCHANGED <<applied, capture>>

\* A CTRL or SHIFT key that a tap presses around its key, unless the seat has the
\* modifier already.
Wrappers(modifier) ==
    {"none"} \cup {m \in Keys : ModifierOf[m] = modifier /\ \A j \in kb.seat : ModifierOf[j] # modifier}

Wrap(r, m, pressed) == IF m = "none" THEN r ELSE Transition(r, m, pressed, FALSE)

\* inject_shell_key_stroke: a tap of the on-screen keyboard.
ShellTap(k) ==
    /\ k \notin kb.seat
    /\ \E ctrl \in Wrappers("ctrl"), shift \in Wrappers("shift"), declines \in BOOLEAN :
          LET down == Transition(Wrap(Wrap(kb, ctrl, TRUE), shift, TRUE), k, TRUE, declines)
              up == Transition(down, k, FALSE, FALSE)
          IN Commit(Wrap(Wrap(up, shift, FALSE), ctrl, FALSE))
    /\ UNCHANGED <<applied, capture, physical>>

\* inject_shell_key_transition: a key held on the on-screen keyboard.
ShellPress(k) ==
    /\ k \notin kb.seat /\ k \notin kb.shell
    /\ \E declines \in BOOLEAN :
          Commit(Transition([kb EXCEPT !.shell = @ \cup {k}], k, TRUE, declines))
    /\ UNCHANGED <<applied, capture, physical>>

ShellRelease(k) ==
    /\ k \in kb.shell
    /\ Commit(Transition([kb EXCEPT !.shell = @ \ {k}], k, FALSE, FALSE))
    /\ UNCHANGED <<applied, capture, physical>>

\* note_pointer_button: a button pressed while SUPER is down makes it a chord.
PointerButton ==
    /\ LogoKeys(kb.engine) # {} /\ kb' = [kb EXCEPT !.engine.chorded = TRUE]
    /\ UNCHANGED <<locked, applied, capture, physical, abandoned>>

\* The seat is paused, or install_keyboard_settings replaces the keymap.
PauseOrNewKeymap == Reset /\ UNCHANGED <<locked, applied, capture, physical>>

\* authentication.lock of the idle policy or the shell, and the PAM worker's unlock.
Lock == ~locked /\ locked' = TRUE /\ UNCHANGED <<kb, applied, capture, physical, abandoned>>
Unlock == locked /\ locked' = FALSE /\ UNCHANGED <<kb, applied, capture, physical, abandoned>>

\* synchronize_authentication_boundary.
SynchronizeBoundary ==
    /\ locked # applied
    /\ Reset
    /\ applied' = locked
    /\ UNCHANGED <<locked, capture, physical>>

\* The shell starts or stops to capture the keyboard, or an input method grabs it.
ChangeCapture == capture' = ~capture /\ UNCHANGED <<kb, locked, applied, physical, abandoned>>

\* Mutant: the keys of the old generation stay with Flutter.
NewGeneration_KeepsKeys(r) == [r EXCEPT !.flutter = {}]

\* reset_flutter_input_generation: the new engine has seen no press, so the keys
\* of the old one are retired.
NewGeneration(r) == [r EXCEPT !.retired = @ \cup r.active, !.active = {}, !.flutter = {}]

ReplaceFlutter ==
    /\ kb' = NewGeneration(kb) /\ capture' = FALSE
    /\ UNCHANGED <<locked, applied, physical, abandoned>>

\* apply_shortcut_update and apply_control_shortcut_update: an engine for another
\* file, which has seen no key.  When the file cannot be saved the old engine comes
\* back, with what it knew: a stutter.
ReplaceShortcuts ==
    /\ \E s \in Shortcuts : kb' = Settled([kb EXCEPT !.engine = FreshEngine(s)])
    /\ UNCHANGED <<locked, applied, capture, physical, abandoned>>

Next ==
    \/ \E k \in Keys : Press(k) \/ Release(k)
    \/ \E k \in ShellKeys : ShellPress(k) \/ ShellRelease(k) \/ ShellTap(k)
    \/ PointerButton \/ PauseOrNewKeymap \/ Lock \/ Unlock \/ SynchronizeBoundary
    \/ ChangeCapture \/ ReplaceFlutter \/ ReplaceShortcuts

Spec == Init /\ [][Next]_vars

-----------------------------------------------------------------------------
\* No key is stuck: what the client or Flutter believes to be down is held by a
\* finger or by the on-screen keyboard, whichever route, keymap, engine, lock or
\* shortcuts were replaced while it was down.  Two cases are excepted, until the key
\* is forgotten everywhere: a key pressed on a keyboard while the seat had it down
\* from the on-screen one, and a modifier other than SUPER whose release ended the
\* window switcher in a locked session.
KeysComeUp == kb.client \cup kb.flutter \subseteq physical \cup kb.shell \cup kb.stray

\* The keys the router releases to Flutter are those Flutter believes to be down,
\* across resets and new engine generations: it gets no release without its press,
\* and no key is taken for Flutter's that Flutter has not seen.
FlutterKeysMatch == kb.flutter = kb.active

\* No later stroke is swallowed: a key is retired only while it is down, so that
\* its own release ends that.  Besides the two cases of KeysComeUp the exception are
\* keys that the on-screen keyboard held, whose release is refused after a reset.
RetiredAreDown == kb.retired \subseteq physical \cup kb.shell \cup abandoned \cup kb.stray

=============================================================================
