------------------------------ MODULE MCKeyboard ------------------------------
(***************************************************************************)
(* Keys and shortcuts of the checked instance of Keyboard.                 *)
(***************************************************************************)
EXTENDS Keyboard

MCModifierOf ==
    [k \in Keys |-> CASE k = "leftmeta" -> "super" [] k = "leftshift" -> "shift" [] OTHER -> "none"]

\* The default shortcut of the window switcher, one that locks and one that may
\* decline its key; and a file with the switcher on another modifier.
MCShortcuts ==
    {[bindings |-> {[modifiers |-> {"super"}, key |-> "tab", target |-> "switcher"],
                    [modifiers |-> {"super"}, key |-> "a", target |-> "lock"],
                    [modifiers |-> {"super", "shift"}, key |-> "a", target |-> "stepping"]},
      tap |-> "action"],
     [bindings |-> {[modifiers |-> {"shift"}, key |-> "tab", target |-> "switcher"],
                    [modifiers |-> {}, key |-> "a", target |-> "context"]},
      tap |-> "none"]}

=============================================================================
