\* Two modifiers and two keys, one of them also on the on-screen keyboard.
CONSTANTS
    Keys = {"leftmeta", "leftshift", "tab", "a"}
    ModifierOf <- MCModifierOf
    Shortcuts <- MCShortcuts
    ShellKeys = {"a"}
SPECIFICATION Spec
INVARIANT KeysComeUp FlutterKeysMatch RetiredAreDown
