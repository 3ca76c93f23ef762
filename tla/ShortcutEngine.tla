---------------------------- MODULE ShortcutEngine ----------------------------
(***************************************************************************)
(* The shortcut engine of native_shortcut.rs.  It observes every key       *)
(* transition before the seat does, keeps the modifiers that are down, the *)
(* keys whose press it captured for a shortcut and the modifier or key     *)
(* that holds the window switcher open, and answers with a disposition:    *)
(* what is to happen to the transition.                                    *)
(*                                                                         *)
(* A left and a right modifier are two keys of one modifier.  Shortcuts    *)
(* made of gestures are left out.                                          *)
(***************************************************************************)
EXTENDS Naturals, Sequences

CONSTANTS
    Keys,             \* evdev key codes
    ModifierOf,       \* key -> its modifier, or "none"
    Shortcuts         \* the shortcut files that may be installed, see ShortcutFile

\* In the order in which observe looks for the owner of the switcher.
ModifierOrder == <<"super", "ctrl", "alt", "shift">>
Modifiers == {ModifierOrder[i] : i \in 1..Len(ModifierOrder)}

\* What a shortcut does, as far as the keyboard can tell: lock the session, step
\* the window switcher, an action that may decline its key ("stepping" when it
\* also repeats), or any other.
Targets == {"lock", "switcher", "context", "stepping", "action"}
Declinable == {"context", "stepping"}

\* A key shortcut; its key is not a modifier.
Binding == {b \in [modifiers : SUBSET Modifiers, key : Keys, target : Targets] :
                ModifierOf[b.key] = "none"}

\* The key shortcuts of a file, and the target of a tap of SUPER alone.
ShortcutFile == [bindings : SUBSET Binding, tap : Targets \cup {"none"}]

\* compile_shortcuts refuses two shortcuts with one trigger.
ASSUME ShortcutAssumption ==
    /\ Keys \cap (Modifiers \cup {"none"}) = {}
    /\ ModifierOf \in [Keys -> Modifiers \cup {"none"}]
    /\ \A s \in Shortcuts :
          /\ s \in ShortcutFile
          /\ \A b, c \in s.bindings : b.modifiers = c.modifiers /\ b.key = c.key => b = c

\* held is the four bit masks together, owner is window_switcher_release, and
\* captured the shortcuts of captured_keys.
Engine == [shortcuts : Shortcuts, held : SUBSET Keys, chorded : BOOLEAN,
           owner : Modifiers \cup Keys \cup {"none"}, captured : SUBSET Binding]

\* from_file, and what reset leaves.
FreshEngine(shortcuts) ==
    [shortcuts |-> shortcuts, held |-> {}, chorded |-> FALSE, owner |-> "none", captured |-> {}]

CapturedKeys(e) == {b.key : b \in e.captured}
CapturedBy(e, k) == {b \in e.captured : b.key = k}
LogoKeys(e) == {k \in e.held : ModifierOf[k] = "super"}
ActiveModifiers(e) == {ModifierOf[k] : k \in e.held}

Answer(e, disposition) == [engine |-> e, disposition |-> disposition]

\* observe of a SUPER key: never forwarded.  Its release ends the switcher it
\* holds open, or is a tap when nothing else was pressed meanwhile.
ObserveLogoPress(e, k) ==
    Answer([e EXCEPT !.held = @ \cup {k}, !.chorded = @ /\ LogoKeys(e) # {}], "consume")

ObserveLogoRelease(e, k) ==
    LET last == LogoKeys(e) \subseteq {k}
        released == [e EXCEPT !.held = @ \ {k}, !.chorded = @ /\ ~last]
    IN IF e.owner = "super"
       THEN Answer([released EXCEPT !.owner = "none"], "switcher_end")
       ELSE Answer(released, IF last /\ ~e.chorded /\ e.shortcuts.tap # "none" THEN e.shortcuts.tap ELSE "consume")

\* observe of any other modifier: forwarded, also when its release ends the switcher.
ObserveModifier(e, k, pressed) ==
    LET moved == [e EXCEPT !.held = IF pressed THEN @ \cup {k} ELSE @ \ {k}]
    IN IF ~pressed /\ e.owner = ModifierOf[k]
       THEN Answer([moved EXCEPT !.owner = "none"], "switcher_end_forward")
       ELSE Answer(moved, "forward")

\* Mutant: a release is consumed when its key is bound, not when its press was.
ObserveRelease_Bound(e, k) ==
    LET bound == \E b \in e.shortcuts.bindings : b.modifiers = ActiveModifiers(e) /\ b.key = k
    IN Answer([e EXCEPT !.captured = @ \ CapturedBy(e, k)], IF bound THEN "consume" ELSE "forward")

\* observe of the release of an ordinary key: consumed when its press was.
ObserveRelease(e, k) ==
    LET released == [e EXCEPT !.captured = @ \ CapturedBy(e, k)]
    IN IF e.owner = k
       THEN Answer([released EXCEPT !.owner = "none"], "switcher_end")
       ELSE Answer(released, IF CapturedBy(e, k) # {} THEN "consume" ELSE "forward")

SwitcherOwner(b) ==
    LET rank(m) == CHOOSE i \in 1..Len(ModifierOrder) : ModifierOrder[i] = m
    IN IF b.modifiers = {} THEN b.key
       ELSE CHOOSE m \in b.modifiers : \A n \in b.modifiers : rank(m) <= rank(n)

\* observe of the press of an ordinary key.  A key that is down already for a
\* shortcut repeats its action or is consumed.
ObservePress(e, k) ==
    LET matching == {b \in e.shortcuts.bindings : b.modifiers = ActiveModifiers(e) /\ b.key = k}
        b == CHOOSE x \in matching : TRUE
        captured == [e EXCEPT !.captured = @ \cup matching]
    IN IF CapturedBy(e, k) # {}
       THEN Answer(e, IF \E c \in CapturedBy(e, k) : c.target = "stepping" THEN "stepping" ELSE "consume")
       ELSE IF matching = {} THEN Answer(e, "forward")
       ELSE IF b.target = "switcher" /\ e.owner = "none"
            THEN Answer([captured EXCEPT !.owner = SwitcherOwner(b)], b.target)
       ELSE Answer(captured, b.target)

\* observe: a press while SUPER is down makes it a chord.
Observe(e, k, pressed) ==
    LET chord == [e EXCEPT !.chorded = @ \/ (pressed /\ LogoKeys(e) # {})]
    IN CASE ModifierOf[k] = "super" /\ pressed -> ObserveLogoPress(e, k)
         [] ModifierOf[k] = "super" /\ ~pressed -> ObserveLogoRelease(e, k)
         [] ModifierOf[k] \notin {"super", "none"} -> ObserveModifier(chord, k, pressed)
         [] ModifierOf[k] = "none" /\ pressed -> ObservePress(chord, k)
         [] ModifierOf[k] = "none" /\ ~pressed -> ObserveRelease(chord, k)

\* pass_through_key: an action declined the key it was bound to.
PassThroughKey(e, k) == [e EXCEPT !.captured = @ \ CapturedBy(e, k)]

=============================================================================
