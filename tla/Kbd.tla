-------------------------------- MODULE Kbd ---------------------------------
(***************************************************************************)
(* The keyboard: the controller sends one or two bytes for every key that  *)
(* goes down or up, and kbdgetc() keeps the modifiers in the static word   *)
(* `shift' from one interrupt to the next.  A scan code is named for its   *)
(* key; `ext' says that it came after an 0xE0.                             *)
(***************************************************************************)
EXTENDS Integers, Sequences

CONSTANTS MaxBytes      \* bound: bytes the controller holds

VARIABLES kb     \* shift, bytes not yet read, last character; keys down, caps lock, doubled modifiers

Keys == {[code |-> "ctl", ext |-> FALSE], [code |-> "ctl", ext |-> TRUE], [code |-> "lshift", ext |-> FALSE],
         [code |-> "rshift", ext |-> FALSE], [code |-> "caps", ext |-> FALSE],
         [code |-> "a", ext |-> FALSE], [code |-> "home", ext |-> TRUE]}

\* Both halves of the table hold the control and alt keys, one the shift keys.
shiftcode(code, ext) == CASE code = "ctl" -> {"CTL"}
                          [] code = "alt" -> {"ALT"}
                          [] code \in {"lshift", "rshift"} /\ ~ext -> {"SHIFT"}
                          [] OTHER -> {}
togglecode(code, ext) == IF code = "caps" /\ ~ext THEN {"CAPSLOCK"} ELSE {}

Xor(S, T) == (S \ T) \cup (T \ S)

Init == kb = [shift |-> {}, bytes |-> <<>>, c |-> "none", down |-> {}, caps |-> FALSE, doubled |-> {}]

-----------------------------------------------------------------------------
(* EXTERNAL: the keyboard.                                                 *)

Sent(k, dir) == (IF k.ext THEN <<[what |-> "E0", code |-> "none"]>> ELSE <<>>) \o <<[what |-> dir, code |-> k.code]>>

\* Modifiers of which two keys are, or were until one of them went up, down together.
Doubled(down) == {m \in {"SHIFT", "CTL", "ALT"} :
                    \/ \E j, k \in down : j # k /\ m \in shiftcode(j.code, j.ext) /\ m \in shiftcode(k.code, k.ext)
                    \/ m \in kb.doubled /\ \E k \in down : m \in shiftcode(k.code, k.ext)}

press(k) ==
    /\ Len(kb.bytes) + 2 <= MaxBytes
    /\ kb' = [kb EXCEPT !.bytes = @ \o Sent(k, "make"), !.down = @ \cup {k}, !.doubled = Doubled(kb.down \cup {k}),
                        !.caps = IF k.code = "caps" THEN ~@ ELSE @]

lift(k) ==
    /\ k \in kb.down /\ Len(kb.bytes) + 2 <= MaxBytes
    /\ kb' = [kb EXCEPT !.bytes = @ \o Sent(k, "break"), !.down = @ \ {k}, !.doubled = Doubled(kb.down \ {k})]

-----------------------------------------------------------------------------

\* Seeded fault: a key that goes up leaves the escape behind.
released_Escape(shift, code) == shift \ shiftcode(code, "E0ESC" \in shift)

released(shift, code) == shift \ (shiftcode(code, "E0ESC" \in shift) \cup {"E0ESC"})

\* charcode[shift & (CTL | SHIFT)], then caps lock.
charcode(shift, code) ==
    IF code # "a" THEN "none"
    ELSE IF "CTL" \in shift THEN "^A"
    ELSE IF ("SHIFT" \in shift) # ("CAPSLOCK" \in shift) THEN "A" ELSE "a"

\* One byte.
kbdgetc ==
    /\ kb.bytes # <<>>
    /\ LET b == kb.bytes[1]
           ext == "E0ESC" \in kb.shift
           shift == Xor((kb.shift \ {"E0ESC"}) \cup shiftcode(b.code, ext), togglecode(b.code, ext))
           read == [kb EXCEPT !.bytes = Tail(@)]
       IN  kb' = CASE b.what = "E0" -> [read EXCEPT !.shift = @ \cup {"E0ESC"}]
                   [] b.what = "break" -> [read EXCEPT !.shift = released(@, b.code), !.c = "none"]
                   [] b.what = "make" -> [read EXCEPT !.shift = shift, !.c = charcode(shift, b.code)]

Next == (\E k \in Keys : press(k) \/ lift(k)) \/ kbdgetc

-----------------------------------------------------------------------------

\* When the controller is drained, `shift' holds exactly the modifiers of the keys that are
\* down and the state of caps lock, and the letter typed last is the one they make, unless
\* two keys of one modifier were down together: the table gives them one bit, which goes
\* with the first of them.  Nothing sticks once the keys are up.
KbdExact ==
    kb.bytes = <<>> =>
        LET mods == UNION {shiftcode(k.code, k.ext) : k \in kb.down}
        IN  /\ (kb.shift \ kb.doubled) \ {"CAPSLOCK"} = mods \ kb.doubled
            /\ ("CAPSLOCK" \in kb.shift) = kb.caps
            /\ kb.c # "none" /\ kb.doubled = {} =>
                  kb.c = charcode(mods \cup (IF kb.caps THEN {"CAPSLOCK"} ELSE {}), "a")
=============================================================================
