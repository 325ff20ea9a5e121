------------------------------ MODULE Keyboard ------------------------------
(***************************************************************************)
(* The keyboard's interrupt handler (devices/kbd.c): scancodes to          *)
(* characters.  Characters are their codes; the keymaps are kept for one   *)
(* key of each kind that the handler tells apart.                          *)
(***************************************************************************)
EXTENDS Integers, Sequences, SequencesExt, FiniteSets

CONSTANTS Buffer      \* characters that fit in the input buffer

DELETE == 127
\* A keymap: the scancodes from first on give the characters of chars.
Keymap(first, chars) == [first_scancode |-> first, chars |-> chars]
invariant_keymap == <<Keymap(30, <<65, 83>>), Keymap(57, <<32>>), Keymap(83, <<DELETE>>)>>
unshifted_keymap == <<Keymap(2, <<49, 50>>), Keymap(26, <<91, 93>>)>>
shifted_keymap == <<Keymap(2, <<33, 64>>), Keymap(26, <<123, 125>>)>>
CapsLock == 58
\* Scancode -> state variable; a prefix 0xe0 is 57344 in front of the byte.
shift_keys == [left_shift |-> 42, right_shift |-> 54, left_alt |-> 56, right_alt |-> 57400,
               left_ctrl |-> 29, right_ctrl |-> 57373]
Modifiers == DOMAIN shift_keys

Maps(k, code) == {i \in DOMAIN k : code >= k[i].first_scancode /\ code < k[i].first_scancode + Len(k[i].chars)}
map_key(k, code) ==
  LET i == CHOOSE j \in Maps(k, code) : \A h \in Maps(k, code) : j <= h
  IN k[i].chars[code - k[i].first_scancode + 1]
tolower(c) == IF c >= 65 /\ c <= 90 THEN c + 32 ELSE c

\* k: [down, caps_lock, input, key_cnt, rebooted]; down the state variables that are TRUE.
\* Fault: Caps Lock changes when its key is released, too.
ToggleCaps_release(k, release) == [k EXCEPT !.caps_lock = IF release \/ ~release THEN ~@ ELSE @]
ToggleCaps(k, release) == [k EXCEPT !.caps_lock = IF release THEN @ ELSE ~@]

\* The rest of the handler for the character c of a key pressed.
Ordinary(k, c0) ==
  LET shift == {"left_shift", "right_shift"} \cap k.down # {}
      alt == {"left_alt", "right_alt"} \cap k.down # {}
      ctrl == {"left_ctrl", "right_ctrl"} \cap k.down # {}
      c1 == IF ctrl /\ c0 >= 64 /\ c0 < 96 THEN c0 - 64
            ELSE IF shift = k.caps_lock THEN tolower(c0) ELSE c0
      c2 == IF alt THEN c1 + 128 ELSE c1
  IN IF c0 = DELETE /\ ctrl /\ alt THEN [k EXCEPT !.rebooted = TRUE]
     ELSE IF Len(k.input) >= Buffer THEN k
     ELSE [k EXCEPT !.key_cnt = @ + 1, !.input = Append(@, c2)]

keyboard_interrupt(k, byte) ==
  LET release == byte.release
      code == byte.code
      shift == {"left_shift", "right_shift"} \cap k.down # {}
      var == {m \in Modifiers : shift_keys[m] = code}
      other == IF shift THEN shifted_keymap ELSE unshifted_keymap
      keymaps == SelectSeq(<<invariant_keymap, other>>, LAMBDA map : Maps(map, code) # {})
  IN IF k.rebooted THEN k
     ELSE IF code = CapsLock THEN ToggleCaps(k, release)
     ELSE IF keymaps # <<>>
          THEN IF release THEN k ELSE Ordinary(k, map_key(keymaps[1], code))
     ELSE [k EXCEPT !.down = IF release THEN @ \ var ELSE @ \cup var]

\* The user: presses and releases of keys, [key, press], where key is a modifier,
\* "caps" or a character key's scancode.
Scancode(e) ==
  [code |-> IF e.key = "caps" THEN CapsLock
            ELSE IF e.key \in Modifiers THEN shift_keys[e.key] ELSE e.code,
   release |-> ~e.press]

\* What a key types: letters by Caps Lock or Shift, but not both; control
\* characters with Ctrl; the other keys by Shift; 128 more with Alt.
Types(code, shift, caps, ctrl, alt) ==
  LET letter == [u \in {30, 31} |-> IF u = 30 THEN 65 ELSE 83]
      plain == [u \in {2, 3, 26, 27, 57, 83} |->
                  CASE u = 2 -> IF shift THEN 33 ELSE 49
                    [] u = 3 -> IF shift THEN IF ctrl THEN 0 ELSE 64 ELSE 50
                    [] u = 26 -> IF shift THEN 123 ELSE IF ctrl THEN 27 ELSE 91
                    [] u = 27 -> IF shift THEN 125 ELSE IF ctrl THEN 29 ELSE 93
                    [] u = 57 -> 32
                    [] u = 83 -> 127]
  IN (IF code \in DOMAIN letter
      THEN IF ctrl THEN letter[code] - 64 ELSE IF shift # caps THEN letter[code] ELSE letter[code] + 32
      ELSE plain[code]) + IF alt THEN 128 ELSE 0

\* Whatever keys were pressed and released before, in whatever overlap (both Shift
\* keys, one of them released), a key types the character that the keys held down
\* at that time and the number of presses of Caps Lock say; what does not fit is
\* dropped and not counted; and Ctrl+Alt+Del reboots.
KeyboardFaithful(events) ==
  LET k == FoldLeft(LAMBDA s, e : keyboard_interrupt(s, Scancode(e)),
             [down |-> {}, caps_lock |-> FALSE, input |-> <<>>, key_cnt |-> 0, rebooted |-> FALSE],
             events)
      Held(n) == {m \in Modifiers : \E i \in 1..n : /\ events[i].key = m /\ events[i].press
                                                    /\ \A j \in i + 1..n : events[j].key # m \/ events[j].press}
      With(n, pair) == pair \cap Held(n) # {}
      Alt(n) == With(n, {"left_alt", "right_alt"})
      Ctrl(n) == With(n, {"left_ctrl", "right_ctrl"})
      Caps(n) == Cardinality({i \in 1..n : events[i].key = "caps" /\ events[i].press}) % 2 = 1
      Reboot(i) == events[i].key = "char" /\ events[i].press /\ events[i].code = 83 /\ Alt(i) /\ Ctrl(i)
      typed == SelectSeq([i \in DOMAIN events |-> i], LAMBDA i : events[i].key = "char" /\ events[i].press)
      out == [i \in DOMAIN typed |->
                Types(events[typed[i]].code, With(typed[i], {"left_shift", "right_shift"}),
                      Caps(typed[i]), Ctrl(typed[i]), Alt(typed[i]))]
  IN IF \E i \in DOMAIN events : Reboot(i) THEN k.rebooted
     ELSE /\ ~k.rebooted
          /\ k.input = SubSeq(out, 1, IF Len(out) < Buffer THEN Len(out) ELSE Buffer)
          /\ k.key_cnt = Len(k.input)
=============================================================================
