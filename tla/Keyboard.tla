------------------------------ MODULE Keyboard ------------------------------
(***************************************************************************)
(* The keyboard driver (devices/kbd.c): keys go down, repeat and come up,  *)
(* and every scan code raises one interrupt.  Characters are their codes.  *)
(***************************************************************************)
EXTENDS Integers, Sequences

CONSTANTS
  Scancode,   \* the scan codes of the keys that are used
  MaxKeys     \* bound on the characters

VARIABLES
  down,       \* the keys that are held down
  shift_state,  \* left_shift, right_shift, left_alt, right_alt, left_ctrl, right_ctrl
  caps_lock,
  caps_hits,  \* the scan codes of Caps Lock going down, modulo 2
  key_cnt,
  queued,     \* the last character that went to the input buffer; -1 before
  typed,      \* the character that was meant
  rebooted

kbdVars == <<down, shift_state, caps_lock, caps_hits, key_cnt, queued, typed, rebooted>>

\* The scan codes of the shift keys, and of Caps Lock.
shift_keys == {42, 54, 56, 57400, 29, 57373}
CAPS == 58

\* The three keymaps, with their letters, as functions of the scan code.
codes(first, chars) == [k \in first..first + Len(chars) - 1 |-> chars[k - first + 1]]
invariant_keymap ==
  <<codes(1, <<27>>), codes(14, <<8>>),
    codes(15, <<9, 81, 87, 69, 82, 84, 89, 85, 73, 79, 80>>), codes(28, <<13>>),
    codes(30, <<65, 83, 68, 70, 71, 72, 74, 75, 76>>),
    codes(44, <<90, 88, 67, 86, 66, 78, 77>>), codes(55, <<42>>),
    codes(57, <<32>>), codes(83, <<127>>)>>
unshifted_keymap ==
  <<codes(2, <<49, 50, 51, 52, 53, 54, 55, 56, 57, 48, 45, 61>>),
    codes(26, <<91, 93>>), codes(39, <<59, 39, 96>>), codes(43, <<92>>),
    codes(51, <<44, 46, 47>>)>>
shifted_keymap ==
  <<codes(2, <<33, 64, 35, 36, 37, 94, 38, 42, 40, 41, 95, 43>>),
    codes(26, <<123, 125>>), codes(39, <<58, 34, 126>>), codes(43, <<124>>),
    codes(51, <<60, 62, 63>>)>>

\* map_key(): the character of a scan code, or -1.
map_key(keymap, code) ==
  LET found == {i \in 1..Len(keymap) : code \in DOMAIN keymap[i]}
  IN  IF found = {} THEN -1 ELSE keymap[CHOOSE i \in found : TRUE][code]

KbdInit ==
  /\ down = {} /\ shift_state = [k \in shift_keys |-> FALSE]
  /\ caps_lock = FALSE /\ caps_hits = 0
  /\ key_cnt = 0 /\ queued = -1 /\ typed = -1 /\ rebooted = FALSE

shift == shift_state[42] \/ shift_state[54]
alt == shift_state[56] \/ shift_state[57400]
ctrl == shift_state[29] \/ shift_state[57373]

tolower(c) == IF c \in 65..90 THEN c + 32 ELSE c

\* Bug variant: Caps Lock does not turn Shift around.
cased_Caps(c) == IF ~shift /\ ~caps_lock THEN tolower(c) ELSE c

\* Ctrl overrides Shift; Alt sets the high bit.
cased(c) == IF shift = caps_lock THEN tolower(c) ELSE c
modified(c) ==
  (IF ctrl /\ c \in 64..95 THEN c - 64 ELSE cased(c)) + (IF alt THEN 128 ELSE 0)

\* The character of an ordinary key, or -1.
ordinary(code, s) ==
  IF map_key(invariant_keymap, code) # -1 THEN map_key(invariant_keymap, code)
  ELSE map_key(IF s THEN shifted_keymap ELSE unshifted_keymap, code)

\* What the keys that are down mean, said without the driver's state.
meant(code) ==
  LET held(keys) == keys \cap down # {}
      plain == ordinary(code, held({42, 54}))
      letter == plain \in 65..90
      upper == held({42, 54}) # (caps_hits = 1)
  IN  (IF held({29, 57373}) /\ plain \in 64..95 THEN plain % 32
       ELSE IF letter /\ ~upper THEN plain + 32
       ELSE plain)
      + (IF held({56, 57400}) THEN 128 ELSE 0)

pressed(release) == ~release

\* The scan of the table of shift keys.
shift_state_of(code, release) ==
  IF code \in shift_keys THEN [shift_state EXCEPT ![code] = ~release] ELSE shift_state

\* keyboard_interrupt(), with or without room in the input buffer.
keyboard_interrupt(code, release, full) ==
  LET c == ordinary(code, shift)
  IN  \/ /\ code = CAPS
         /\ caps_lock' = IF release THEN caps_lock ELSE ~caps_lock
         /\ UNCHANGED <<shift_state, key_cnt, queued, typed, rebooted>>
      \/ /\ code # CAPS /\ c # -1 /\ pressed(release)
         /\ IF c = 127 /\ ctrl /\ alt
              THEN rebooted' = TRUE /\ UNCHANGED <<key_cnt, queued, typed>>
              ELSE /\ UNCHANGED rebooted
                   /\ IF full THEN UNCHANGED <<key_cnt, queued, typed>>
                      ELSE /\ key_cnt' = key_cnt + 1
                           /\ queued' = modified(c) /\ typed' = meant(code)
         /\ UNCHANGED <<shift_state, caps_lock>>
      \/ /\ code # CAPS /\ c # -1 /\ ~pressed(release)
         /\ UNCHANGED <<shift_state, caps_lock, key_cnt, queued, typed, rebooted>>
      \/ /\ code # CAPS /\ c = -1
         /\ shift_state' = shift_state_of(code, release)
         /\ UNCHANGED <<caps_lock, key_cnt, queued, typed, rebooted>>

\* A key goes down, or repeats.
key_down(k, full) ==
  /\ ~rebooted /\ key_cnt < MaxKeys
  /\ down' = down \cup {k}
  /\ caps_hits' = IF k = CAPS THEN 1 - caps_hits ELSE caps_hits
  /\ keyboard_interrupt(k, FALSE, full)

key_up(k) ==
  /\ ~rebooted /\ k \in down
  /\ down' = down \ {k} /\ UNCHANGED caps_hits
  /\ keyboard_interrupt(k, TRUE, FALSE)

KbdNext ==
  \/ \E k \in Scancode, full \in BOOLEAN : key_down(k, full)
  \/ \E k \in Scancode : key_up(k)

\* Each character in the input buffer is the one that the keys held at its
\* scan code mean, Caps Lock having been hit as often as it was: the driver's
\* idea of the keys does not drift from the keyboard, whatever is pressed,
\* repeated and released in between, also by keys it does not know.
KeysMeant == queued = typed

\* The shift keys that the driver takes to be down are those that are.
ShiftFollows == \A k \in shift_keys : shift_state[k] <=> k \in down

\* kbd.c: the driver knows the shift keys, and the characters are those meant.
KeyboardCorrect == KeysMeant /\ ShiftFollows
=============================================================================
