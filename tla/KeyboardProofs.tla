---------------------------- MODULE KeyboardProofs ----------------------------
(***************************************************************************)
(* Proofs about Keyboard, for any keys, modifiers and shortcuts, also when *)
(* they are replaced: Flutter and the router agree on the keys that are    *)
(* down, no key is stuck and no later stroke is swallowed.                 *)
(***************************************************************************)
EXTENDS Keyboard, TLAPS

-----------------------------------------------------------------------------
(* The shortcut engine.                                                    *)

\* The four modifiers and their order.
LEMMA ModifierFacts ==
    /\ Modifiers = {"super", "ctrl", "alt", "shift"}
    /\ Len(ModifierOrder) = 4
    /\ ModifierOrder[1] = "super" /\ ModifierOrder[2] = "ctrl"
    /\ ModifierOrder[3] = "alt" /\ ModifierOrder[4] = "shift"
<1>1. /\ Len(ModifierOrder) = 4
      /\ ModifierOrder[1] = "super" /\ ModifierOrder[2] = "ctrl"
      /\ ModifierOrder[3] = "alt" /\ ModifierOrder[4] = "shift"
  BY DEF ModifierOrder
<1>2. 1..Len(ModifierOrder) = {1, 2, 3, 4}
  BY <1>1
<1>3. Modifiers = {ModifierOrder[i] : i \in {1, 2, 3, 4}}
  BY <1>2 DEF Modifiers
<1> QED
  BY <1>1, <1>3

\* The owner of the switcher is the key of its shortcut or one of its modifiers.
LEMMA OwnerOfSwitcher ==
    ASSUME NEW b \in Binding
    PROVE  /\ b.modifiers = {} => SwitcherOwner(b) = b.key
           /\ b.modifiers # {} => SwitcherOwner(b) \in b.modifiers
<1> DEFINE rank(m) == CHOOSE i \in 1..Len(ModifierOrder) : ModifierOrder[i] = m
<1> DEFINE first(m) == \A n \in b.modifiers : rank(m) <= rank(n)
<1>1. b.modifiers \subseteq {"super", "ctrl", "alt", "shift"}
  BY ModifierFacts DEF Binding
<1>2. \A m \in Modifiers : rank(m) \in 1..4 /\ ModifierOrder[rank(m)] = m
  BY ModifierFacts
<1>3. rank("super") = 1 /\ rank("ctrl") = 2 /\ rank("alt") = 3 /\ rank("shift") = 4
  BY <1>2, ModifierFacts
<1>4. SwitcherOwner(b) = IF b.modifiers = {} THEN b.key ELSE CHOOSE m \in b.modifiers : first(m)
  BY DEF SwitcherOwner
<1> HIDE DEF rank
<1>5. b.modifiers # {} => \E m \in b.modifiers : first(m)
  BY <1>1, <1>3
<1> HIDE DEF first
<1>7. b.modifiers # {} => SwitcherOwner(b) \in b.modifiers /\ first(SwitcherOwner(b))
  BY <1>4, <1>5
<1> QED
  BY <1>4, <1>7

\* What an answer of the engine may say.
Dispositions == Targets \cup {"forward", "consume", "switcher_end", "switcher_end_forward"}

\* observe keeps the types of the engine.
LEMMA ObserveType ==
    ASSUME NEW e \in Engine, NEW k \in Keys, NEW p \in BOOLEAN
    PROVE  Observe(e, k, p).engine \in Engine
<1> DEFINE chord == [e EXCEPT !.chorded = @ \/ (p /\ LogoKeys(e) # {})]
<1>1. chord \in Engine
  BY DEF Engine
<1>2. ModifierOf[k] \in Modifiers \cup {"none"}
  BY ShortcutAssumption
<1>3. ASSUME NEW f \in Engine
      PROVE  /\ ObserveLogoPress(f, k).engine \in Engine
             /\ ObserveLogoRelease(f, k).engine \in Engine
             /\ ObserveModifier(f, k, p).engine \in Engine
             /\ ObserveRelease(f, k).engine \in Engine
  <2>1. ObserveLogoPress(f, k).engine \in Engine
    BY DEF ObserveLogoPress, Answer, Engine
  <2>2. ObserveLogoRelease(f, k).engine \in Engine
    BY DEF ObserveLogoRelease, Answer, Engine
  <2>3. ObserveModifier(f, k, p).engine \in Engine
    BY DEF ObserveModifier, Answer, Engine
  <2>4. ObserveRelease(f, k).engine \in Engine
    BY DEF ObserveRelease, Answer, Engine
  <2> QED
    BY <2>1, <2>2, <2>3, <2>4
<1>4. ASSUME NEW f \in Engine PROVE ObservePress(f, k).engine \in Engine
  <2> DEFINE matching == {b \in f.shortcuts.bindings : b.modifiers = ActiveModifiers(f) /\ b.key = k}
             b == CHOOSE x \in matching : TRUE
             captured == [f EXCEPT !.captured = @ \cup matching]
  <2>0. matching \subseteq Binding
    BY ShortcutAssumption DEF Engine, ShortcutFile
  <2>1. captured \in Engine
    BY <2>0 DEF Engine
  <2>2. ASSUME matching # {} PROVE [captured EXCEPT !.owner = SwitcherOwner(b)] \in Engine
    <3>1. b \in Binding
      BY <2>0, <2>2
    <3>2. SwitcherOwner(b) \in Modifiers \cup Keys
      BY <3>1, OwnerOfSwitcher DEF Binding
    <3> HIDE DEF b, captured
    <3> QED
      BY <2>1, <3>2 DEF Engine
  <2>3. ObservePress(f, k).engine \in {f, captured} \/ 
        (matching # {} /\ ObservePress(f, k).engine = [captured EXCEPT !.owner = SwitcherOwner(b)])
    BY DEF ObservePress, Answer
  <2> QED
    BY <2>1, <2>2, <2>3
<1> QED
  BY <1>1, <1>2, <1>3, <1>4 DEF Observe

-----------------------------------------------------------------------------
(* Flutter and the router.                                                 *)

\* Flutter's keys are known to the seat, and none of them is retired; so a reset,
\* which asks the seat what is down, releases each of them to Flutter.
Routed(r) ==
    /\ r \in Router
    /\ r.flutter = r.active
    /\ r.active \subseteq r.seat /\ r.active \cap r.retired = {}

\* The route of a transition to Flutter, to nobody or to the client.
LEMMA ProcessRouted ==
    ASSUME NEW r, Routed(r), NEW k \in Keys, NEW p \in BOOLEAN
    PROVE  Routed(ProcessFlutterKeyboardTransition(r, k, p))
<1>1. CASE p
  BY <1>1
     DEF Routed, Router, ProcessFlutterKeyboardTransition, Moved, RetiredConsumes, Retire,
         FlutterOwns
<1>2. CASE ~p
  BY <1>2
     DEF Routed, Router, ProcessFlutterKeyboardTransition, Moved, RetiredConsumes, Retire,
         FlutterOwns
<1> QED
  BY <1>1, <1>2

\* t is r with another engine, lock request and stray keys, or that is also routed.
Observed(r, k, p, t) ==
    \E e \in Engine, l \in BOOLEAN, x \in SUBSET Keys :
        LET q == [r EXCEPT !.engine = e, !.locks = l, !.stray = x]
        IN t \in {q, ProcessFlutterKeyboardTransition(q, k, p)}

\* A transition is observed by the engine, and then routed or not.
LEMMA TransitionShape ==
    ASSUME NEW r \in Router, NEW k \in Keys, NEW p \in BOOLEAN, NEW d \in BOOLEAN
    PROVE  Observed(r, k, p, Transition(r, k, p, d))
<1> DEFINE answer == Observe(r.engine, k, p)
           kept == Intercepts(r, answer.disposition, d)
           e == IF kept \/ ~p \/ Secure(r) THEN answer.engine ELSE PassThroughKey(answer.engine, k)
           l == r.locks \/ answer.disposition = "lock"
           x == IF kept /\ answer.disposition = "switcher_end_forward"
                THEN r.stray \cup {k} ELSE r.stray
           q == [r EXCEPT !.engine = e, !.locks = l, !.stray = x]
<1>1. answer.engine \in Engine
  BY ObserveType DEF Router
<1>2. PassThroughKey(answer.engine, k) \in Engine
  <2> HIDE DEF answer
  <2> QED
    BY <1>1 DEF PassThroughKey, Engine
<1>3. e \in Engine /\ l \in BOOLEAN /\ x \in SUBSET Keys
  BY <1>1, <1>2 DEF Router
<1>4. Transition(r, k, p, d) = IF kept THEN q ELSE ProcessFlutterKeyboardTransition(q, k, p)
  BY DEF Transition
<1> HIDE DEF e, l, x, kept
<1> QED
  BY <1>3, <1>4 DEF Observed

\* A transition keeps Flutter's keys in order.
LEMMA TransitionRouted ==
    ASSUME NEW r, Routed(r), NEW k \in Keys, NEW p \in BOOLEAN, NEW d \in BOOLEAN
    PROVE  Routed(Transition(r, k, p, d))
<1>1. r \in Router
  BY DEF Routed
<1>a. Observed(r, k, p, Transition(r, k, p, d))
  BY <1>1, TransitionShape
<1>2. PICK e \in Engine, l \in BOOLEAN, x \in SUBSET Keys :
          LET q == [r EXCEPT !.engine = e, !.locks = l, !.stray = x]
          IN Transition(r, k, p, d) \in {q, ProcessFlutterKeyboardTransition(q, k, p)}
  BY <1>a DEF Observed
<1> DEFINE q == [r EXCEPT !.engine = e, !.locks = l, !.stray = x]
<1>3. Routed(q)
  BY DEF Routed, Router
<1> HIDE DEF q
<1>4. Routed(ProcessFlutterKeyboardTransition(q, k, p))
  BY <1>3, ProcessRouted
<1> QED
  BY <1>2, <1>3, <1>4 DEF q

\* The modifiers that a tap wraps around its key.
LEMMA WrapRouted ==
    ASSUME NEW r, Routed(r), NEW m \in Keys \cup {"none"}, NEW p \in BOOLEAN
    PROVE  Routed(Wrap(r, m, p))
BY TransitionRouted DEF Wrap

\* What every step leaves; Commit clears the lock request.
LEMMA CommitRouted ==
    ASSUME NEW r, Routed(r), Commit(r) PROVE Routed(kb')
<1>1. Routed([r EXCEPT !.locks = FALSE])
  BY DEF Routed, Router
<1> QED
  BY <1>1 DEF Commit, Settled, Routed, Router

\* reset_input_devices retires what the seat holds and releases it.
LEMMA ResetRouted ==
    ASSUME Routed(kb) PROVE Routed(ResetInputDevices(kb))
BY DEF Routed, Router, ResetInputDevices, FreshEngine, Engine

\* A tap is up to six transitions in one step.
LEMMA TapRouted ==
    ASSUME Routed(kb), NEW k \in ShellKeys, ShellTap(k)
    PROVE  Routed(kb')
<1>1. PICK ctrl \in Wrappers("ctrl"), shift \in Wrappers("shift"), declines \in BOOLEAN :
          LET down == Transition(Wrap(Wrap(kb, ctrl, TRUE), shift, TRUE), k, TRUE, declines)
              up == Transition(down, k, FALSE, FALSE)
          IN Commit(Wrap(Wrap(up, shift, FALSE), ctrl, FALSE))
  BY DEF ShellTap
<1> DEFINE r1 == Wrap(kb, ctrl, TRUE)
           r2 == Wrap(r1, shift, TRUE)
           r3 == Transition(r2, k, TRUE, declines)
           r4 == Transition(r3, k, FALSE, FALSE)
           r5 == Wrap(r4, shift, FALSE)
           r6 == Wrap(r5, ctrl, FALSE)
<1>2. Commit(r6)
  BY <1>1
<1>3. k \in Keys /\ ctrl \in Keys \cup {"none"} /\ shift \in Keys \cup {"none"}
  BY KeyboardAssumption DEF Wrappers
<1>4. Routed(r1)
  BY <1>3, WrapRouted
<1> HIDE DEF r1
<1>5. Routed(r2)
  BY <1>3, <1>4, WrapRouted
<1> HIDE DEF r2
<1>6. Routed(r3)
  BY <1>3, <1>5, TransitionRouted
<1> HIDE DEF r3
<1>7. Routed(r4)
  BY <1>3, <1>6, TransitionRouted
<1> HIDE DEF r4
<1>8. Routed(r5)
  BY <1>3, <1>7, WrapRouted
<1> HIDE DEF r5
<1>9. Routed(r6)
  BY <1>3, <1>8, WrapRouted
<1> QED
  BY <1>2, <1>9, CommitRouted

\* Every action keeps Flutter's keys in order.
LEMMA NextRouted == Routed(kb) /\ [Next]_vars => Routed(kb')
<1> SUFFICES ASSUME Routed(kb), [Next]_vars PROVE Routed(kb')
  OBVIOUS
<1>0. Routed(kb) /\ ShellKeys \subseteq Keys
  BY KeyboardAssumption
<1>1. ASSUME NEW k \in Keys, Press(k) PROVE Routed(kb')
  <2>1. Routed([kb EXCEPT !.stray = @ \cup ({k} \cap kb.seat)])
    BY <1>0 DEF Routed, Router
  <2> QED
    BY <1>0, <1>1, <2>1, TransitionRouted, CommitRouted DEF Press
<1>2. ASSUME NEW k \in Keys, Release(k) PROVE Routed(kb')
  BY <1>0, <1>2, TransitionRouted, CommitRouted DEF Release
<1>3. ASSUME NEW k \in ShellKeys, ShellPress(k) PROVE Routed(kb')
  <2>1. Routed([kb EXCEPT !.shell = @ \cup {k}])
    BY <1>0 DEF Routed, Router
  <2> QED
    BY <1>0, <1>3, <2>1, TransitionRouted, CommitRouted DEF ShellPress
<1>4. ASSUME NEW k \in ShellKeys, ShellRelease(k) PROVE Routed(kb')
  <2>1. Routed([kb EXCEPT !.shell = @ \ {k}])
    BY <1>0 DEF Routed, Router
  <2> QED
    BY <1>0, <1>4, <2>1, TransitionRouted, CommitRouted DEF ShellRelease
<1>5. ASSUME NEW k \in ShellKeys, ShellTap(k) PROVE Routed(kb')
  BY <1>0, <1>5, TapRouted
<1>6. CASE PointerButton
  BY <1>0, <1>6 DEF PointerButton, Routed, Router, Engine
<1>7. CASE PauseOrNewKeymap \/ SynchronizeBoundary
  BY <1>0, <1>7, ResetRouted DEF PauseOrNewKeymap, SynchronizeBoundary, Reset
<1>8. CASE ReplaceFlutter
  BY <1>0, <1>8 DEF ReplaceFlutter, NewGeneration, Routed, Router
<1>9. CASE ReplaceShortcuts
  <2>1. PICK s \in Shortcuts : kb' = Settled([kb EXCEPT !.engine = FreshEngine(s)])
    BY <1>9 DEF ReplaceShortcuts
  <2>2. FreshEngine(s) \in Engine
    BY DEF FreshEngine, Engine
  <2>3. Routed([kb EXCEPT !.engine = FreshEngine(s)])
    BY <1>0, <2>2 DEF Routed, Router
  <2> QED
    BY <2>1, <2>3 DEF Settled, Routed, Router
<1>10. CASE Lock \/ Unlock \/ ChangeCapture \/ UNCHANGED vars
  BY <1>0, <1>10 DEF Lock, Unlock, ChangeCapture, vars
<1> QED
  BY <1>1, <1>2, <1>3, <1>4, <1>5, <1>6, <1>7, <1>8, <1>9, <1>10 DEF Next

\* The keys the router releases to Flutter are those Flutter believes to be down,
\* for every keyboard and every set of shortcuts (flutter_keyboard_keys).
THEOREM FlutterAgrees == Spec => []FlutterKeysMatch
<1>1. Init => Routed(kb)
  BY DEF Init, Routed, Router, FreshEngine, Engine
<1>2. Routed(kb) /\ [Next]_vars => Routed(kb)'
  BY NextRouted
<1>3. Routed(kb) => FlutterKeysMatch
  BY DEF Routed, FlutterKeysMatch
<1> QED
  BY <1>1, <1>2, <1>3, PTL DEF Spec

-----------------------------------------------------------------------------
(* Stuck and swallowed keys.                                               *)

\* A switcher that a key holds open keeps that key captured.
Steady(e) ==
    /\ e \in Engine
    /\ \A b, c \in e.captured : b.key = c.key => b = c
    /\ e.owner \in Keys => \E b \in e.captured : b.key = e.owner /\ b.target = "switcher"

\* A modifier key is not the key of a shortcut.
LEMMA CapturedAreOrdinary ==
    ASSUME NEW e \in Engine, NEW k \in CapturedKeys(e)
    PROVE  k \in Keys /\ ModifierOf[k] = "none"
BY DEF CapturedKeys, Engine, Binding

\* The answer a to a press of k: the key is captured unless the press is forwarded,
\* and a key that its shortcut may decline does not hold the switcher.
AnswersPress(e, k, a) ==
    /\ Steady(a.engine)
    /\ CapturedKeys(a.engine) \subseteq CapturedKeys(e) \cup {k}
    /\ a.disposition = "forward" => k \notin CapturedKeys(a.engine)
    /\ a.disposition # "switcher_end_forward"
    /\ a.disposition \in Declinable => a.engine.owner # k
    /\ ModifierOf[k] = "super" => a.disposition = "consume"
    /\ ModifierOf[k] \notin {"super", "none"} => a.disposition = "forward"

\* The answer a to a release of k: the key is no longer captured, and the release
\* is kept only for SUPER, for a key that was, and in a locked session for a modifier
\* that ends the switcher.
AnswersRelease(e, k, a) ==
    /\ Steady(a.engine)
    /\ CapturedKeys(a.engine) = CapturedKeys(e) \ {k}
    /\ \/ a.disposition = "forward" \/ k \in CapturedKeys(e) \/ ModifierOf[k] = "super"
       \/ a.disposition = "switcher_end_forward"
    /\ a.disposition = "switcher_end_forward" => ModifierOf[k] \notin {"super", "none"}

\* observe of a press.
LEMMA ObservePressed ==
    ASSUME NEW e, Steady(e), NEW k \in Keys
    PROVE  AnswersPress(e, k, Observe(e, k, TRUE))
<1> DEFINE f == [e EXCEPT !.chorded = @ \/ (TRUE /\ LogoKeys(e) # {})]
           a == Observe(e, k, TRUE)
<1>1. /\ Steady(f) /\ f.captured = e.captured /\ f.owner = e.owner
  BY DEF Steady, Engine
<1>2. ModifierOf[k] \in Modifiers \cup {"none"} /\ k \notin Modifiers \cup {"none"}
  BY ShortcutAssumption
<1>e. a.engine \in Engine
  BY ObserveType DEF Steady
<1>o. /\ ModifierOf[k] = "super" => a = ObserveLogoPress(e, k)
      /\ ModifierOf[k] \notin {"super", "none"} => a = ObserveModifier(f, k, TRUE)
      /\ ModifierOf[k] = "none" => a = ObservePress(f, k)
  BY DEF Observe
<1> SUFFICES AnswersPress(e, k, a)
  OBVIOUS
<1> HIDE DEF a, f
<1>3. CASE ModifierOf[k] = "super"
  <2>1. a = ObserveLogoPress(e, k)
    BY <1>3, <1>o
  <2>2. a.disposition = "consume" /\ a.engine.captured = e.captured /\ a.engine.owner = e.owner
    BY <2>1 DEF ObserveLogoPress, Answer, Steady, Engine
  <2>3. a.engine \in Engine
    BY <1>e
  <2> QED
    BY <1>3, <2>2, <2>3 DEF AnswersPress, Steady, CapturedKeys, Declinable
<1>4. CASE ModifierOf[k] \notin {"super", "none"}
  <2>1. a = ObserveModifier(f, k, TRUE)
    BY <1>4, <1>o
  <2>2. a.disposition = "forward" /\ a.engine.captured = e.captured /\ a.engine.owner = e.owner
    BY <1>1, <2>1 DEF ObserveModifier, Answer, Steady, Engine
  <2>3. a.engine \in Engine
    BY <1>e
  <2>4. k \notin CapturedKeys(e)
    BY <1>4, CapturedAreOrdinary DEF Steady
  <2> QED
    BY <1>4, <2>2, <2>3, <2>4 DEF AnswersPress, Steady, CapturedKeys, Declinable
<1>5. CASE ModifierOf[k] = "none"
  <2> DEFINE matching == {b \in f.shortcuts.bindings : b.modifiers = ActiveModifiers(f) /\ b.key = k}
             b == CHOOSE x \in matching : TRUE
             captured == [f EXCEPT !.captured = @ \cup matching]
  <2>1. a = ObservePress(f, k) /\ a.engine \in Engine
    BY <1>5, <1>e, <1>o
  <2>2. /\ \A x, y \in matching : x = y
        /\ matching \subseteq Binding
    <3>1. f.shortcuts \in Shortcuts
      BY <1>1 DEF Steady, Engine
    <3> QED
      BY <3>1, ShortcutAssumption DEF ShortcutFile
  <2>3. CASE CapturedBy(f, k) # {}
    <3>1. /\ a.engine = f
          /\ a.disposition = IF \E c \in CapturedBy(f, k) : c.target = "stepping" THEN "stepping" ELSE "consume"
      BY <2>1, <2>3 DEF ObservePress, Answer
    <3>2. a.disposition \in Declinable => a.engine.owner # k
      BY <1>1, <3>1 DEF Declinable, Steady, CapturedBy
    <3> QED
      BY <1>1, <1>5, <3>1, <3>2 DEF AnswersPress, CapturedKeys
  <2>4. CASE CapturedBy(f, k) = {} /\ matching = {}
    <3>1. a.engine = f /\ a.disposition = "forward"
      BY <2>1, <2>4 DEF ObservePress, Answer
    <3> QED
      BY <1>1, <1>5, <2>4, <3>1 DEF AnswersPress, CapturedKeys, CapturedBy, Declinable
  <2>5. CASE CapturedBy(f, k) = {} /\ matching # {}
    <3>1. b \in Binding /\ b.key = k /\ matching = {b}
      BY <2>2, <2>5
    <3>2. b.target \in Targets /\ b.modifiers \subseteq Modifiers
      BY <3>1 DEF Binding
    <3>3. f.owner # k
      BY <1>1, <2>5, ShortcutAssumption DEF Steady, CapturedBy
    <3>4. a = IF b.target = "switcher" /\ f.owner = "none"
              THEN Answer([captured EXCEPT !.owner = SwitcherOwner(b)], b.target)
              ELSE Answer(captured, b.target)
      BY <2>1, <2>5 DEF ObservePress
    <3> HIDE DEF b, matching
    <3>5. a.disposition = b.target /\ a.engine.captured = f.captured \cup {b}
      BY <1>1, <3>1, <3>4 DEF Answer, Steady, Engine
    <3>6. \/ b.target = "switcher" /\ a.engine.owner = SwitcherOwner(b)
          \/ a.engine.owner = f.owner
      BY <1>1, <3>4 DEF Answer, Steady, Engine
    <3>7. SwitcherOwner(b) \in Modifiers \cup {k}
      BY <3>1, <3>2, OwnerOfSwitcher
    <3>8. b.target # "switcher" => a.engine.owner # k
      BY <3>3, <3>6
    <3>9. \A x, y \in a.engine.captured : x.key = y.key => x = y
      BY <1>1, <2>5, <3>1, <3>5 DEF Steady, CapturedBy
    <3>11. a.engine.owner \in Keys =>
               \E x \in a.engine.captured : x.key = a.engine.owner /\ x.target = "switcher"
      <4>1. CASE a.engine.owner = f.owner
        BY <1>1, <3>5, <4>1 DEF Steady
      <4>2. CASE b.target = "switcher" /\ a.engine.owner = SwitcherOwner(b)
        BY <3>1, <3>5, <3>7, <4>2, ShortcutAssumption
      <4> QED
        BY <3>6, <4>1, <4>2
    <3>12. Steady(a.engine)
      BY <2>1, <3>9, <3>11 DEF Steady
    <3>13. CapturedKeys(a.engine) \subseteq CapturedKeys(e) \cup {k}
      BY <1>1, <3>1, <3>5 DEF CapturedKeys
    <3> QED
      BY <1>5, <3>2, <3>5, <3>8, <3>12, <3>13 DEF AnswersPress, Targets, Declinable
  <2> QED
    BY <2>3, <2>4, <2>5
<1> QED
  BY <1>3, <1>4, <1>5

\* observe of a release.
LEMMA ObserveReleased ==
    ASSUME NEW e, Steady(e), NEW k \in Keys
    PROVE  AnswersRelease(e, k, Observe(e, k, FALSE))
<1> DEFINE f == [e EXCEPT !.chorded = @ \/ (FALSE /\ LogoKeys(e) # {})]
           a == Observe(e, k, FALSE)
<1>1. /\ Steady(f) /\ f.captured = e.captured /\ f.owner = e.owner
  BY DEF Steady, Engine
<1>2. ModifierOf[k] \in Modifiers \cup {"none"} /\ k \notin Modifiers \cup {"none"}
  BY ShortcutAssumption
<1>3. a.engine \in Engine
  BY ObserveType DEF Steady
<1>o. /\ ModifierOf[k] = "super" => a = ObserveLogoRelease(e, k)
      /\ ModifierOf[k] \notin {"super", "none"} => a = ObserveModifier(f, k, FALSE)
      /\ ModifierOf[k] = "none" => a = ObserveRelease(f, k)
  BY DEF Observe
<1> SUFFICES AnswersRelease(e, k, a)
  OBVIOUS
<1> HIDE DEF a, f
<1>4. CASE ModifierOf[k] = "super"
  <2>1. a = ObserveLogoRelease(e, k)
    BY <1>4, <1>o
  <2>2. a.engine.captured = e.captured /\ a.engine.owner \in {e.owner, "none"}
    BY <2>1 DEF ObserveLogoRelease, Answer, Steady, Engine
  <2>3. k \notin CapturedKeys(e)
    BY <1>4, CapturedAreOrdinary DEF Steady
  <2>4. a.disposition # "switcher_end_forward"
    <3>1. e.shortcuts.tap \in Targets \cup {"none"}
      BY ShortcutAssumption DEF Steady, Engine, ShortcutFile
    <3> QED
      BY <2>1, <3>1 DEF ObserveLogoRelease, Answer, Targets
  <2> QED
    BY <1>2, <1>3, <1>4, <2>2, <2>3, <2>4, ShortcutAssumption DEF AnswersRelease, Steady, CapturedKeys
<1>5. CASE ModifierOf[k] \notin {"super", "none"}
  <2>1. a = ObserveModifier(f, k, FALSE)
    BY <1>5, <1>o
  <2>2. "none" \notin Keys
    BY ShortcutAssumption
  <2>3. /\ a.disposition \in {"forward", "switcher_end_forward"}
        /\ a.engine.captured = e.captured /\ a.engine.owner \in {e.owner, "none"}
    BY <1>1, <2>1 DEF ObserveModifier, Answer, Steady, Engine
  <2>4. k \notin CapturedKeys(e)
    BY <1>5, CapturedAreOrdinary DEF Steady
  <2> QED
    BY <1>3, <1>5, <2>2, <2>3, <2>4 DEF AnswersRelease, Steady, CapturedKeys
<1>6. CASE ModifierOf[k] = "none"
  <2>1. a = ObserveRelease(f, k)
    BY <1>6, <1>o
  <2>2. /\ a.engine.captured = f.captured \ CapturedBy(f, k)
        /\ a.engine.owner = IF f.owner = k THEN "none" ELSE f.owner
    BY <1>1, <2>1 DEF ObserveRelease, Answer, Steady, Engine
  <2>3. a.disposition = IF f.owner = k THEN "switcher_end"
                        ELSE IF CapturedBy(f, k) # {} THEN "consume" ELSE "forward"
    BY <1>1, <2>1 DEF ObserveRelease, Answer
  <2>4. CapturedKeys(a.engine) = CapturedKeys(e) \ {k}
    BY <1>1, <2>2 DEF CapturedKeys, CapturedBy
  <2>5. Steady(a.engine)
    BY <1>1, <1>2, <1>3, <2>2, ShortcutAssumption DEF Steady, CapturedBy
  <2>6. /\ a.disposition = "forward" \/ k \in CapturedKeys(e)
        /\ a.disposition # "switcher_end_forward"
    BY <1>1, <2>3 DEF Steady, CapturedKeys, CapturedBy
  <2> QED
    BY <2>4, <2>5, <2>6 DEF AnswersRelease
<1> QED
  BY <1>4, <1>5, <1>6

\* D are the keys that are down.  Stray keys apart, the seat holds some of them, but
\* neither SUPER nor a captured key, and each that the seat holds is the client's,
\* Flutter's, retired or nobody's.
Seated(r, D) ==
    /\ Routed(r) /\ Steady(r.engine)
    /\ r.seat \subseteq D \cup r.stray /\ r.client \subseteq r.seat \cup r.stray
    /\ r.client \cap (r.active \cup r.retired) \subseteq r.stray
    /\ \A k \in r.seat \cup r.retired : ModifierOf[k] # "super"
    /\ r.seat \cap CapturedKeys(r.engine) \subseteq r.stray

\* t is r after a press of k: nothing else is pressed, captured or retired, and a
\* modifier goes to the client only while Flutter does not capture the keyboard.
Pressed(r, k, t, D) ==
    /\ Seated(t, D \cup {k})
    /\ t.retired = r.retired /\ t.shell = r.shell /\ t.stray = r.stray
    /\ t.seat \subseteq r.seat \cup {k}
    /\ CapturedKeys(t.engine) \subseteq CapturedKeys(r.engine) \cup {k}
    /\ ModifierOf[k] \notin {"super", "none"} =>
           /\ t.locks = r.locks
           /\ t.client \subseteq r.client \cup {k}
           /\ k \in t.client => ~(Secure(r) \/ capture) \/ k \in r.stray

\* t is r after a release of k: the key is up or strays, and remains retired only if
\* it was captured or strays.
Released(r, k, t, D) ==
    /\ Seated(t, D \ {k})
    /\ t.shell = r.shell /\ t.seat \subseteq (r.seat \ {k}) \cup t.stray
    /\ t.retired \subseteq r.retired /\ r.stray \subseteq t.stray
    /\ k \in t.retired => k \in CapturedKeys(r.engine) \cup t.stray
    /\ CapturedKeys(t.engine) = CapturedKeys(r.engine) \ {k}

\* The press of a key the seat does not hold, of a modifier that goes where it went
\* before, or of a stray key.
LEMMA PressSeated ==
    ASSUME NEW r, NEW D, Seated(r, D), NEW k \in Keys, NEW d \in BOOLEAN,
           k \notin r.seat \/ ModifierOf[k] # "none" \/ k \in r.stray,
           k \in r.client => ~(Secure(r) \/ capture) \/ k \in r.stray
    PROVE  Pressed(r, k, Transition(r, k, TRUE, d), D)
<1> DEFINE a == Observe(r.engine, k, TRUE)
           kept == Intercepts(r, a.disposition, d)
           e == IF kept \/ Secure(r) THEN a.engine ELSE PassThroughKey(a.engine, k)
           q == [r EXCEPT !.engine = e, !.locks = @ \/ a.disposition = "lock", !.stray = @]
           t == Transition(r, k, TRUE, d)
<1>2. AnswersPress(r.engine, k, a)
  BY ObservePressed DEF Seated
<1>1. t = IF kept THEN q ELSE ProcessFlutterKeyboardTransition(q, k, TRUE)
  <2>1. a.disposition # "switcher_end_forward"
    BY <1>2 DEF AnswersPress
  <2> QED
    BY <2>1 DEF Transition
<1>3. Routed(t)
  BY TransitionRouted DEF Seated
<1> SUFFICES Pressed(r, k, t, D)
  OBVIOUS
<1> HIDE DEF a, t
<1>4. /\ CapturedKeys(PassThroughKey(a.engine, k)) = CapturedKeys(a.engine) \ {k}
      /\ a.engine.owner # k => Steady(PassThroughKey(a.engine, k))
  BY <1>2 DEF AnswersPress, Steady, Engine, PassThroughKey, CapturedBy, CapturedKeys
<1>5. ~kept /\ ~Secure(r) => a.disposition = "forward" \/ a.disposition \in Declinable
  BY <1>2 DEF AnswersPress, Intercepts
<1>6. a.disposition = "forward" => a.engine.owner # k
  BY <1>2 DEF AnswersPress, Steady, CapturedKeys
<1>7. Steady(e) /\ CapturedKeys(e) \subseteq CapturedKeys(r.engine) \cup {k}
  BY <1>2, <1>4, <1>5, <1>6 DEF AnswersPress
<1>8. ~kept => k \notin CapturedKeys(e)
  BY <1>2, <1>4 DEF AnswersPress, Intercepts
<1>9. kept => ModifierOf[k] \in {"super", "none"}
  BY <1>2 DEF AnswersPress, Intercepts
<1>10. ~kept => ModifierOf[k] # "super"
  BY <1>2 DEF AnswersPress, Intercepts, Declinable
<1>11. ModifierOf[k] # "none" => k \notin CapturedKeys(e)
  BY <1>7 DEF CapturedKeys, Steady, Engine, Binding
<1>12. /\ q.seat = r.seat /\ q.client = r.client /\ q.active = r.active /\ q.retired = r.retired
       /\ q.engine = e /\ q.shell = r.shell /\ q.stray = r.stray
       /\ q.locks = (r.locks \/ a.disposition = "lock")
       /\ q \in Router
  BY <1>7 DEF Seated, Routed, Router, Steady
<1>13. ModifierOf[k] \notin {"super", "none"} => q.locks = r.locks
  BY <1>2, <1>12 DEF AnswersPress, Seated, Routed, Router
<1> HIDE DEF e, kept, q
<1>14. CASE kept
  BY <1>1, <1>3, <1>7, <1>9, <1>11, <1>12, <1>14 DEF Pressed, Seated
<1>15. CASE ~kept
  <2> DEFINE o == FlutterOwns(q, k, TRUE)
  <2>1. /\ t.engine = e /\ t.seat = r.seat \cup {k} /\ t.shell = r.shell /\ t.locks = q.locks
        /\ t.retired = r.retired /\ t.stray = r.stray
        /\ t.client = IF k \in r.retired \/ o THEN r.client ELSE r.client \cup {k}
        /\ t.active = IF k \notin r.retired /\ o THEN r.active \cup {k} ELSE r.active
    BY <1>1, <1>12, <1>15
       DEF ProcessFlutterKeyboardTransition, Moved, RetiredConsumes, Retire, Router
  <2>2. o = (k \in r.active \/ Secure(q) \/ capture)
    BY <1>12 DEF FlutterOwns
  <2>3. ModifierOf[k] # "none" => Secure(q) = Secure(r)
    BY <1>10, <1>13, <1>15 DEF Secure
  <2> HIDE DEF o
  <2>4. t.client \cap (t.active \cup t.retired) \subseteq t.stray
    <3>1. k \in r.client => ModifierOf[k] # "none" \/ k \in r.stray
      BY DEF Seated
    <3> QED
      BY <2>1, <2>2, <2>3, <3>1 DEF Seated
  <2>5. t.seat \cap CapturedKeys(t.engine) \subseteq t.stray
    BY <1>7, <1>8, <1>15, <2>1 DEF Seated
  <2>6. Seated(t, D \cup {k})
    BY <1>3, <1>7, <1>10, <1>15, <2>1, <2>4, <2>5 DEF Seated
  <2> QED
    BY <1>7, <1>13, <2>1, <2>2, <2>3, <2>6 DEF Pressed
<1> QED
  BY <1>14, <1>15

\* The release of a key, wherever its press went.
LEMMA ReleaseSeated ==
    ASSUME NEW r, NEW D, Seated(r, D), NEW k \in Keys, NEW d \in BOOLEAN
    PROVE  Released(r, k, Transition(r, k, FALSE, d), D)
<1> DEFINE a == Observe(r.engine, k, FALSE)
           kept == Intercepts(r, a.disposition, d)
           x == IF kept /\ a.disposition = "switcher_end_forward" THEN r.stray \cup {k} ELSE r.stray
           q == [r EXCEPT !.engine = a.engine, !.locks = @ \/ a.disposition = "lock", !.stray = x]
           t == Transition(r, k, FALSE, d)
<1>1. t = IF kept THEN q ELSE ProcessFlutterKeyboardTransition(q, k, FALSE)
  BY DEF Transition
<1>2. AnswersRelease(r.engine, k, a)
  BY ObserveReleased DEF Seated
<1>3. Routed(t)
  BY TransitionRouted DEF Seated
<1> SUFFICES Released(r, k, t, D)
  OBVIOUS
<1> HIDE DEF a, t
<1>4. /\ kept => k \in CapturedKeys(r.engine) \/ ModifierOf[k] = "super" \/ k \in x
      /\ r.stray \subseteq x /\ (~kept => x = r.stray)
      /\ x \in SUBSET Keys
  BY <1>2 DEF AnswersRelease, Intercepts, Seated, Routed, Router
<1>5. /\ q.seat = r.seat /\ q.client = r.client /\ q.active = r.active /\ q.retired = r.retired
      /\ q.engine = a.engine /\ q.shell = r.shell /\ q.stray = x /\ q \in Router
  BY <1>2, <1>4 DEF AnswersRelease, Steady, Seated, Routed, Router
<1>6. Steady(a.engine) /\ CapturedKeys(a.engine) = CapturedKeys(r.engine) \ {k}
  BY <1>2 DEF AnswersRelease
<1> HIDE DEF kept, q, x
<1>7. CASE kept
  BY <1>1, <1>3, <1>4, <1>5, <1>6, <1>7 DEF Released, Seated
<1>8. CASE ~kept
  <2>1. /\ t.engine = a.engine /\ t.seat = r.seat \ {k} /\ t.shell = r.shell
        /\ t.retired = r.retired \ {k} /\ t.active = r.active \ {k} /\ t.stray = r.stray
        /\ t.client = IF k \in r.retired \cup r.active THEN r.client ELSE r.client \ {k}
    BY <1>1, <1>4, <1>5, <1>8
       DEF ProcessFlutterKeyboardTransition, FlutterOwns, Moved, RetiredConsumes, Retire, Router
  <2>2. t.client \subseteq (r.client \ {k}) \cup r.stray /\ t.client \subseteq r.client
    BY <2>1 DEF Seated
  <2>3. Seated(t, D \ {k})
    BY <1>3, <1>6, <2>1, <2>2 DEF Seated
  <2> QED
    BY <1>6, <2>1, <2>3 DEF Released
<1> QED
  BY <1>7, <1>8

\* Of the keys that are down, only those that the seat holds matter.
LEMMA SeatedIn ==
    ASSUME NEW r, NEW D, NEW E, Seated(r, D), r.seat \subseteq E \cup r.stray PROVE Seated(r, E)
BY DEF Seated

\* A transition that changes nothing but the keys of the on-screen keyboard.
LEMMA SeatedShell ==
    ASSUME NEW r, NEW D, Seated(r, D), NEW S \in SUBSET Keys
    PROVE  LET q == [r EXCEPT !.shell = S]
           IN /\ Seated(q, D) /\ q.shell = S /\ q.seat = r.seat /\ q.client = r.client
              /\ q.retired = r.retired /\ q.engine = r.engine /\ q.stray = r.stray
BY DEF Seated, Routed, Router

\* The inductive invariant.  Stray keys apart, a retired key is down, or its release
\* was refused; and because a key is captured when it is pressed, it is captured only
\* if its release was refused or it is down on both keyboards.
Unstuck ==
    /\ Seated(kb, physical \cup kb.shell)
    /\ kb.retired \subseteq physical \cup kb.shell \cup abandoned \cup kb.stray
    /\ kb.retired \cap CapturedKeys(kb.engine) \subseteq
           abandoned \cup kb.stray \cup (physical \cap kb.shell)

\* Keys that nobody remembers need not stray.
LEMMA SettledSeated ==
    ASSUME NEW r, NEW D, Seated(r, D), NEW S, S \subseteq r.stray,
           r.stray \cap (r.seat \cup r.client \cup r.flutter \cup r.retired
                         \cup CapturedKeys(r.engine)) \subseteq S,
           NEW t, t \in Router, t.seat = r.seat, t.client = r.client, t.active = r.active,
           t.retired = r.retired, t.flutter = r.flutter, t.engine = r.engine, t.stray = S
    PROVE  Seated(t, D)
BY DEF Seated, Routed

\* What a step that commits the router r leaves.
LEMMA CommitUnstuck ==
    ASSUME NEW r, Commit(r), Seated(r, physical' \cup r.shell),
           r.retired \subseteq physical' \cup r.shell \cup abandoned \cup r.stray,
           r.retired \cap CapturedKeys(r.engine) \subseteq
               abandoned \cup r.stray \cup (physical' \cap r.shell)
    PROVE  Unstuck'
<1> DEFINE S == r.stray \cap (r.seat \cup r.client \cup r.flutter \cup r.retired
                              \cup CapturedKeys(r.engine))
<1>1. /\ kb' = [r EXCEPT !.locks = FALSE, !.stray = S] /\ abandoned' = abandoned \cap r.retired
      /\ r \in Router
  <2>1. r \in Router
    BY DEF Seated, Routed
  <2> QED
    BY <2>1 DEF Commit, Settled, Router
<1>2. /\ kb'.seat = r.seat /\ kb'.client = r.client /\ kb'.active = r.active
      /\ kb'.retired = r.retired /\ kb'.engine = r.engine /\ kb'.shell = r.shell
      /\ kb'.flutter = r.flutter /\ kb'.stray = S /\ kb' \in Router
  BY <1>1 DEF Router
<1>3. Seated(kb', physical' \cup r.shell)
  BY <1>2, SettledSeated
<1> QED
  BY <1>1, <1>2, <1>3 DEF Unstuck

\* An engine that has seen no key.
LEMMA FreshSteady ==
    ASSUME NEW f \in Shortcuts
    PROVE  Steady(FreshEngine(f)) /\ CapturedKeys(FreshEngine(f)) = {}
BY ShortcutAssumption DEF Steady, Engine, FreshEngine, CapturedKeys

\* reset_input_devices leaves no key to the client or to Flutter.
LEMMA ResetUnstuck ==
    ASSUME Unstuck, Reset, physical' = physical PROVE Unstuck'
<1>0. kb \in Router /\ kb.engine.shortcuts \in Shortcuts
  BY DEF Unstuck, Seated, Routed, Router, Engine
<1>1. Routed(kb')
  BY ResetRouted DEF Unstuck, Seated, Reset
<1>2. /\ kb'.engine = FreshEngine(kb.engine.shortcuts)
      /\ kb'.active = {} /\ kb'.shell = {} /\ kb'.seat = {} /\ kb'.stray = kb.stray
      /\ kb'.retired = kb.retired \cup kb.seat \cup kb.active
      /\ kb'.client = kb.client \ (kb.seat \ (kb.active \cup kb.retired))
  BY <1>0 DEF Router, Reset, ResetInputDevices
<1>3. kb'.client \subseteq kb.stray /\ kb.active \subseteq kb.seat
  BY <1>2 DEF Unstuck, Seated, Routed
<1>4. Steady(kb'.engine) /\ CapturedKeys(kb'.engine) = {}
  BY <1>0, <1>2, FreshSteady
<1>5. Seated(kb', physical')
  BY <1>1, <1>2, <1>3, <1>4 DEF Unstuck, Seated
<1>6. kb'.retired \subseteq physical' \cup abandoned' \cup kb'.stray
  BY <1>2, <1>3 DEF Unstuck, Seated, Reset
<1> QED
  BY <1>2, <1>4, <1>5, <1>6 DEF Unstuck

\* A tap: its keys are not down afterwards, and its modifiers go up again or stray.
LEMMA TapUnstuck ==
    ASSUME Unstuck, NEW k \in ShellKeys, ShellTap(k)
    PROVE  Unstuck'
<1>1. PICK ctrl \in Wrappers("ctrl"), shift \in Wrappers("shift"), declines \in BOOLEAN :
          LET down == Transition(Wrap(Wrap(kb, ctrl, TRUE), shift, TRUE), k, TRUE, declines)
              up == Transition(down, k, FALSE, FALSE)
          IN Commit(Wrap(Wrap(up, shift, FALSE), ctrl, FALSE))
  BY DEF ShellTap
<1> DEFINE r1 == Wrap(kb, ctrl, TRUE)
           r2 == Wrap(r1, shift, TRUE)
           r3 == Transition(r2, k, TRUE, declines)
           r4 == Transition(r3, k, FALSE, FALSE)
           r5 == Wrap(r4, shift, FALSE)
           r6 == Wrap(r5, ctrl, FALSE)
           D == physical \cup kb.shell
           C(r) == CapturedKeys(r.engine)
           calm == ~(Secure(kb) \/ capture)
<1>2. Commit(r6) /\ physical' = physical /\ k \notin kb.seat /\ k \in Keys
  BY <1>1, KeyboardAssumption DEF ShellTap
<1>3. /\ ctrl # "none" => ctrl \in Keys /\ ModifierOf[ctrl] = "ctrl" /\ ctrl \notin kb.seat
      /\ shift # "none" => shift \in Keys /\ ModifierOf[shift] = "shift" /\ shift \notin kb.seat
  BY DEF Wrappers
<1>4. /\ Seated(kb, D) /\ D = physical \cup kb.shell
      /\ kb.client \subseteq kb.seat \cup kb.stray
  BY DEF Unstuck, Seated
<1> HIDE DEF D
<1>5. /\ Seated(r1, D \cup {ctrl}) /\ r1.retired = kb.retired /\ r1.shell = kb.shell
      /\ r1.stray = kb.stray
      /\ r1.seat \subseteq kb.seat \cup {ctrl} /\ C(r1) \subseteq C(kb) \cup {ctrl}
      /\ r1.locks = kb.locks /\ r1.client \subseteq kb.client \cup {ctrl}
      /\ ctrl \in r1.client /\ ctrl \in Keys => calm \/ ctrl \in kb.stray
  <2>1. CASE ctrl = "none"
    <3>1. kb.seat \subseteq (D \cup {ctrl}) \cup kb.stray /\ "none" \notin Keys
      BY <1>4, ShortcutAssumption DEF Seated
    <3> QED
      BY <1>4, <2>1, <3>1, SeatedIn DEF Wrap
  <2>2. CASE ctrl # "none"
    <3>1. r1 = Transition(kb, ctrl, TRUE, FALSE)
      BY <2>2 DEF Wrap
    <3>2. Pressed(kb, ctrl, r1, D)
      BY <1>3, <1>4, <2>2, <3>1, PressSeated
    <3> HIDE DEF r1
    <3> QED
      BY <1>3, <2>2, <3>2 DEF Pressed
  <2> QED
    BY <2>1, <2>2
<1> HIDE DEF r1
<1>6. /\ Seated(r2, D \cup {ctrl, shift}) /\ r2.retired = kb.retired /\ r2.shell = kb.shell
      /\ r2.stray = kb.stray
      /\ r2.seat \subseteq kb.seat \cup {ctrl, shift} /\ C(r2) \subseteq C(kb) \cup {ctrl, shift}
      /\ r2.locks = kb.locks
      /\ \A m \in {ctrl, shift} \cap Keys : m \in r2.client => calm \/ m \in kb.stray
      /\ r2.client \subseteq kb.client \cup {ctrl, shift}
  <2>1. CASE shift = "none"
    <3>1. r1.seat \subseteq (D \cup {ctrl, shift}) \cup r1.stray /\ "none" \notin Keys
      BY <1>4, <1>5, ShortcutAssumption DEF Seated
    <3>2. r2 = r1
      BY <2>1 DEF Wrap
    <3>3. Seated(r1, D \cup {ctrl, shift})
      BY <1>5, <3>1, SeatedIn
    <3> HIDE DEF r2
    <3> QED
      BY <1>5, <2>1, <3>1, <3>2, <3>3
  <2>2. CASE shift # "none"
    <3>1. shift \notin r1.seat /\ (shift \in r1.client => shift \in r1.stray) /\ shift \in Keys
      <4>1. shift # ctrl
        BY <1>3, <2>2, ShortcutAssumption
      <4> QED
        BY <1>3, <1>4, <1>5, <2>2, <4>1
    <3>2. ModifierOf[shift] \notin {"super", "none"}
      BY <1>3, <2>2
    <3>3. r2 = Transition(r1, shift, TRUE, FALSE)
      BY <2>2 DEF Wrap
    <3>4. Secure(r1) = Secure(kb)
      BY <1>5 DEF Secure
    <3> HIDE DEF r2
    <3>a. Seated(r1, D \cup {ctrl})
      BY <1>5
    <3>5. Pressed(r1, shift, r2, D \cup {ctrl})
      BY <3>a, <3>1, <3>3, PressSeated
    <3>6. (D \cup {ctrl}) \cup {shift} = D \cup {ctrl, shift}
      OBVIOUS
    <3> HIDE DEF r2
    <3> QED
      BY <1>5, <3>2, <3>4, <3>5, <3>6 DEF Pressed
  <2> QED
    BY <2>1, <2>2
<1> HIDE DEF r2
<1>7. /\ Seated(r3, D \cup {ctrl, shift, k}) /\ r3.retired = kb.retired /\ r3.shell = kb.shell
      /\ r3.stray = kb.stray
      /\ r3.seat \subseteq kb.seat \cup {ctrl, shift, k}
      /\ C(r3) \subseteq C(kb) \cup {ctrl, shift, k}
  <2>1. k \in r2.seat => k \in {ctrl, shift} /\ ModifierOf[k] # "none"
    BY <1>2, <1>3, <1>6, ShortcutAssumption
  <2>2. k \in r2.client => ~(Secure(r2) \/ capture) \/ k \in r2.stray
    BY <1>2, <1>4, <1>6, <2>1 DEF Secure
  <2>3. (D \cup {ctrl, shift}) \cup {k} = D \cup {ctrl, shift, k}
    OBVIOUS
  <2>4. Pressed(r2, k, r3, D \cup {ctrl, shift})
    BY <1>2, <1>6, <2>1, <2>2, PressSeated
  <2> HIDE DEF r3
  <2> QED
    BY <1>6, <2>3, <2>4 DEF Pressed
<1> HIDE DEF r3
<1>8. \E E : Seated(r4, E) /\ r4.retired \subseteq kb.retired /\ r4.shell = kb.shell
             /\ kb.stray \subseteq r4.stray
             /\ r4.seat \subseteq ((kb.seat \cup {ctrl, shift, k}) \ {k}) \cup r4.stray
             /\ C(r4) \subseteq (C(kb) \cup {ctrl, shift, k}) \ {k}
  <2>1. Released(r3, k, r4, D \cup {ctrl, shift, k})
    BY <1>2, <1>7, ReleaseSeated
  <2> HIDE DEF r4
  <2> QED
    BY <1>7, <2>1 DEF Released
<1> HIDE DEF r4
<1>9. ASSUME NEW r, NEW E, Seated(r, E), NEW m \in Keys \cup {"none"}, NEW t, t = Wrap(r, m, FALSE)
      PROVE  \E F : /\ Seated(t, F) /\ t.retired \subseteq r.retired /\ t.shell = r.shell
                    /\ r.stray \subseteq t.stray
                    /\ t.seat \subseteq (r.seat \ {m}) \cup t.stray /\ C(t) \subseteq C(r) \ {m}
  <2>1. CASE m = "none"
    <3>1. "none" \notin r.seat /\ "none" \notin C(r)
      BY <1>9, ShortcutAssumption, CapturedAreOrdinary DEF Seated, Routed, Router, Steady
    <3>2. t = r
      BY <1>9, <2>1 DEF Wrap
    <3> QED
      BY <1>9, <2>1, <3>1, <3>2
  <2>2. CASE m # "none"
    <3>1. t = Transition(r, m, FALSE, FALSE)
      BY <1>9, <2>2 DEF Wrap
    <3>2. Released(r, m, t, E)
      BY <1>9, <2>2, <3>1, ReleaseSeated
    <3> QED
      BY <3>2 DEF Released
  <2> QED
    BY <2>1, <2>2
<1>10. \E E : Seated(r5, E) /\ r5.retired \subseteq kb.retired /\ r5.shell = kb.shell
             /\ kb.stray \subseteq r5.stray
             /\ r5.seat \subseteq kb.seat \cup {ctrl} \cup r5.stray /\ C(r5) \subseteq C(kb) \cup {ctrl}
  <2>1. PICK E : /\ Seated(r4, E) /\ r4.retired \subseteq kb.retired /\ r4.shell = kb.shell
                 /\ kb.stray \subseteq r4.stray
                 /\ r4.seat \subseteq ((kb.seat \cup {ctrl, shift, k}) \ {k}) \cup r4.stray
                 /\ C(r4) \subseteq (C(kb) \cup {ctrl, shift, k}) \ {k}
    BY <1>8
  <2>2. \E F : /\ Seated(r5, F) /\ r5.retired \subseteq r4.retired /\ r5.shell = r4.shell
               /\ r4.stray \subseteq r5.stray
               /\ r5.seat \subseteq (r4.seat \ {shift}) \cup r5.stray /\ C(r5) \subseteq C(r4) \ {shift}
    BY <1>3, <1>9, <2>1
  <2> HIDE DEF r5
  <2> QED
    BY <2>1, <2>2
<1> HIDE DEF r5
<1>11. \E E : Seated(r6, E) /\ r6.retired \subseteq kb.retired /\ r6.shell = kb.shell
             /\ kb.stray \subseteq r6.stray
             /\ r6.seat \subseteq kb.seat \cup r6.stray /\ C(r6) \subseteq C(kb)
  <2>1. PICK E : /\ Seated(r5, E) /\ r5.retired \subseteq kb.retired /\ r5.shell = kb.shell
                 /\ kb.stray \subseteq r5.stray
                 /\ r5.seat \subseteq kb.seat \cup {ctrl} \cup r5.stray /\ C(r5) \subseteq C(kb) \cup {ctrl}
    BY <1>10
  <2>2. \E F : /\ Seated(r6, F) /\ r6.retired \subseteq r5.retired /\ r6.shell = r5.shell
               /\ r5.stray \subseteq r6.stray
               /\ r6.seat \subseteq (r5.seat \ {ctrl}) \cup r6.stray /\ C(r6) \subseteq C(r5) \ {ctrl}
    BY <1>3, <1>9, <2>1
  <2> HIDE DEF r6
  <2> QED
    BY <2>1, <2>2
<1> HIDE DEF r6
<1>12. Seated(r6, physical' \cup r6.shell)
  BY <1>2, <1>11, SeatedIn DEF Unstuck, Seated
<1> QED
  BY <1>2, <1>11, <1>12, CommitUnstuck DEF Unstuck

\* Every action keeps the invariant.
LEMMA NextUnstuck ==
    ASSUME Unstuck, [Next]_vars PROVE Unstuck'
<1>0. /\ Seated(kb, physical \cup kb.shell) /\ ShellKeys \subseteq Keys /\ kb \in Router
      /\ kb.seat \subseteq physical \cup kb.shell \cup kb.stray
      /\ kb.client \subseteq kb.seat \cup kb.stray
      /\ kb.shell \subseteq Keys
  BY KeyboardAssumption DEF Unstuck, Seated, Routed, Router
<1>1. ASSUME NEW k \in Keys, Press(k) PROVE Unstuck'
  <2> DEFINE q == [kb EXCEPT !.stray = @ \cup ({k} \cap kb.seat)]
  <2>1. PICK declines \in BOOLEAN : Commit(Transition(q, k, TRUE, declines))
    BY <1>1 DEF Press
  <2> DEFINE t == Transition(q, k, TRUE, declines)
  <2>2. k \notin physical /\ physical' = physical \cup {k}
    BY <1>1 DEF Press
  <2>3. /\ q.shell = kb.shell /\ q.seat = kb.seat /\ q.client = kb.client
        /\ q.retired = kb.retired /\ q.engine = kb.engine /\ q.active = kb.active
        /\ q.flutter = kb.flutter /\ q.stray = kb.stray \cup ({k} \cap kb.seat) /\ q \in Router
    BY <1>0 DEF Router
  <2> HIDE DEF q
  <2>4. Seated(q, physical \cup kb.shell)
    BY <1>0, <2>3 DEF Seated, Routed
  <2>5. Pressed(q, k, t, physical \cup kb.shell)
    BY <1>0, <2>3, <2>4, PressSeated
  <2> HIDE DEF t
  <2>6. Seated(t, physical' \cup t.shell)
    BY <1>0, <2>2, <2>3, <2>5, SeatedIn DEF Pressed
  <2>7. /\ t.shell = kb.shell /\ t.retired = kb.retired /\ kb.stray \subseteq t.stray
        /\ CapturedKeys(t.engine) \subseteq CapturedKeys(kb.engine) \cup {k}
    BY <2>3, <2>5 DEF Pressed
  <2>8. t.retired \subseteq physical' \cup t.shell \cup abandoned \cup t.stray
    BY <2>2, <2>7 DEF Unstuck
  <2>9. t.retired \cap CapturedKeys(t.engine) \subseteq
            abandoned \cup t.stray \cup (physical' \cap t.shell)
    BY <2>2, <2>7 DEF Unstuck
  <2> QED
    BY <2>1, <2>6, <2>8, <2>9, CommitUnstuck DEF t
<1>2. ASSUME NEW k \in Keys, Release(k) PROVE Unstuck'
  <2>1. PICK declines \in BOOLEAN : Commit(Transition(kb, k, FALSE, declines))
    BY <1>2 DEF Release
  <2> DEFINE t == Transition(kb, k, FALSE, declines)
  <2>2. physical' = physical \ {k}
    BY <1>2 DEF Release
  <2>3. Released(kb, k, t, physical \cup kb.shell)
    BY <1>0, ReleaseSeated
  <2> HIDE DEF t
  <2>4. Seated(t, physical' \cup t.shell)
    BY <1>0, <2>2, <2>3, SeatedIn DEF Released
  <2> QED
    BY <2>1, <2>2, <2>3, <2>4, CommitUnstuck DEF Unstuck, Released, t
<1>3. ASSUME NEW k \in ShellKeys, ShellPress(k) PROVE Unstuck'
  <2> DEFINE q == [kb EXCEPT !.shell = @ \cup {k}]
  <2>1. PICK declines \in BOOLEAN : Commit(Transition(q, k, TRUE, declines))
    BY <1>3 DEF ShellPress
  <2> DEFINE t == Transition(q, k, TRUE, declines)
  <2>2. k \notin kb.seat /\ (k \in kb.client => k \in kb.stray) /\ k \notin kb.shell
        /\ physical' = physical
    BY <1>0, <1>3 DEF ShellPress
  <2>3. /\ Seated(q, physical \cup kb.shell) /\ q.shell = kb.shell \cup {k}
        /\ q.seat = kb.seat /\ q.client = kb.client
        /\ q.retired = kb.retired /\ q.engine = kb.engine /\ q.stray = kb.stray
    BY <1>0, SeatedShell
  <2> HIDE DEF q
  <2>4. Pressed(q, k, t, physical \cup kb.shell)
    BY <1>0, <2>2, <2>3, PressSeated
  <2> HIDE DEF t
  <2>5. Seated(t, physical' \cup t.shell)
    BY <1>0, <2>2, <2>3, <2>4, SeatedIn DEF Pressed
  <2> QED
    BY <2>1, <2>2, <2>3, <2>4, <2>5, CommitUnstuck DEF Unstuck, Pressed, t
<1>4. ASSUME NEW k \in ShellKeys, ShellRelease(k) PROVE Unstuck'
  <2> DEFINE q == [kb EXCEPT !.shell = @ \ {k}]
             t == Transition(q, k, FALSE, FALSE)
  <2>1. Commit(t) /\ physical' = physical
    BY <1>4 DEF ShellRelease
  <2>2. /\ Seated(q, physical \cup kb.shell) /\ q.shell = kb.shell \ {k}
        /\ q.seat = kb.seat /\ q.client = kb.client
        /\ q.retired = kb.retired /\ q.engine = kb.engine /\ q.stray = kb.stray
    BY <1>0, SeatedShell
  <2> HIDE DEF q
  <2>3. Released(q, k, t, physical \cup kb.shell)
    BY <1>0, <2>2, ReleaseSeated
  <2> HIDE DEF t
  <2>4. Seated(t, physical' \cup t.shell)
    BY <1>0, <2>1, <2>2, <2>3, SeatedIn DEF Released
  <2> QED
    BY <2>1, <2>2, <2>3, <2>4, CommitUnstuck DEF Unstuck, Released
<1>5. ASSUME NEW k \in ShellKeys, ShellTap(k) PROVE Unstuck'
  BY <1>5, TapUnstuck
<1>6. CASE PointerButton
  <2>1. /\ kb'.seat = kb.seat /\ kb'.client = kb.client /\ kb'.active = kb.active
        /\ kb'.retired = kb.retired /\ kb'.shell = kb.shell /\ kb'.stray = kb.stray
        /\ kb'.engine = [kb.engine EXCEPT !.chorded = TRUE] /\ kb.engine \in Engine
    BY <1>0, <1>6 DEF PointerButton, Router
  <2>2. Steady(kb'.engine) /\ CapturedKeys(kb'.engine) = CapturedKeys(kb.engine)
    BY <1>0, <2>1 DEF Seated, Steady, Engine, CapturedKeys
  <2>3. Routed(kb') /\ physical' = physical /\ abandoned' = abandoned
    BY <1>0, <1>6, NextRouted DEF Seated, Next, PointerButton
  <2> QED
    BY <2>1, <2>2, <2>3 DEF Unstuck, Seated
<1>7. CASE PauseOrNewKeymap \/ SynchronizeBoundary
  BY <1>7, ResetUnstuck DEF PauseOrNewKeymap, SynchronizeBoundary
<1>8. CASE ReplaceFlutter
  <2>1. /\ kb'.seat = kb.seat /\ kb'.client = kb.client /\ kb'.active = {}
        /\ kb'.retired = kb.retired \cup kb.active /\ kb'.shell = kb.shell
        /\ kb'.engine = kb.engine /\ kb'.stray = kb.stray
    BY <1>0, <1>8 DEF ReplaceFlutter, NewGeneration, Router
  <2>2. Routed(kb') /\ physical' = physical /\ abandoned' = abandoned
    BY <1>0, <1>8, NextRouted DEF Seated, Next, ReplaceFlutter
  <2> QED
    BY <2>1, <2>2 DEF Unstuck, Seated, Routed
<1>9. CASE ReplaceShortcuts
  <2>1. PICK f \in Shortcuts : kb' = Settled([kb EXCEPT !.engine = FreshEngine(f)])
    BY <1>9 DEF ReplaceShortcuts
  <2> DEFINE q == [kb EXCEPT !.engine = FreshEngine(f)]
             S == q.stray \cap (q.seat \cup q.client \cup q.flutter \cup q.retired
                                \cup CapturedKeys(q.engine))
  <2>2. Steady(FreshEngine(f)) /\ CapturedKeys(FreshEngine(f)) = {}
    BY FreshSteady
  <2>3. /\ q.seat = kb.seat /\ q.client = kb.client /\ q.active = kb.active
        /\ q.retired = kb.retired /\ q.shell = kb.shell /\ q.flutter = kb.flutter
        /\ q.engine = FreshEngine(f) /\ q.stray = kb.stray /\ q \in Router
    BY <1>0, <2>2 DEF Router, Steady
  <2>4. kb' = [q EXCEPT !.stray = S] /\ physical' = physical /\ abandoned' = abandoned
    BY <1>9, <2>1 DEF Settled, ReplaceShortcuts
  <2> HIDE DEF q
  <2>5. Seated(q, physical \cup kb.shell)
    BY <1>0, <2>2, <2>3 DEF Seated, Routed
  <2>6. /\ kb'.seat = q.seat /\ kb'.client = q.client /\ kb'.active = q.active
        /\ kb'.retired = q.retired /\ kb'.engine = q.engine /\ kb'.shell = q.shell
        /\ kb'.flutter = q.flutter /\ kb'.stray = S /\ kb' \in Router
    BY <2>3, <2>4 DEF Router
  <2>7. Seated(kb', physical \cup kb.shell)
    BY <2>5, <2>6, SettledSeated
  <2> QED
    BY <2>2, <2>3, <2>4, <2>6, <2>7 DEF Unstuck
<1>10. CASE Lock \/ Unlock \/ ChangeCapture \/ UNCHANGED vars
  BY <1>10 DEF Lock, Unlock, ChangeCapture, vars, Unstuck
<1> QED
  BY <1>1, <1>2, <1>3, <1>4, <1>5, <1>6, <1>7, <1>8, <1>9, <1>10 DEF Next

\* No router state holds a key at first.
LEMMA InitUnstuck == Init => Unstuck
<1> SUFFICES ASSUME Init PROVE Unstuck
  OBVIOUS
<1>1. PICK f \in Shortcuts :
          kb = [engine |-> FreshEngine(f), active |-> {}, retired |-> {}, shell |-> {},
                seat |-> {}, client |-> {}, flutter |-> {}, locks |-> FALSE, stray |-> {}]
  BY DEF Init
<1>2. Steady(FreshEngine(f)) /\ CapturedKeys(FreshEngine(f)) = {}
  BY FreshSteady
<1>3. Routed(kb)
  BY <1>1, <1>2 DEF Routed, Router, Steady
<1> QED
  BY <1>1, <1>2, <1>3 DEF Unstuck, Seated

\* No key is stuck: what the client or Flutter believes to be down is held by a
\* finger or by the on-screen keyboard, for all keys and shortcuts, and however often
\* the shortcuts, the keymap, the engine or the lock change.  The two exceptions are
\* those of KeysComeUp (process_keyboard_transition, reset_input_devices).
THEOREM NoKeySticks == Spec => []KeysComeUp
<1>1. Unstuck /\ [Next]_vars => Unstuck'
  BY NextUnstuck
<1>2. Unstuck => KeysComeUp
  BY DEF Unstuck, Seated, Routed, KeysComeUp
<1> QED
  BY <1>1, <1>2, InitUnstuck, PTL DEF Spec

\* No later stroke is swallowed: a key stays retired only while it is down, after the
\* on-screen keyboard's release of it was refused, or in the two cases of KeysComeUp
\* (retired_keyboard_keys).
THEOREM NoStrokeSwallowed == Spec => []RetiredAreDown
<1>1. Unstuck /\ [Next]_vars => Unstuck'
  BY NextUnstuck
<1>2. Unstuck => RetiredAreDown
  BY DEF Unstuck, RetiredAreDown
<1> QED
  BY <1>1, <1>2, InitUnstuck, PTL DEF Spec

=============================================================================
