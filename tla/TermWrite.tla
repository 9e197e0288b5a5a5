----------------------------- MODULE TermWrite -----------------------------
(***************************************************************************)
(* Bytes to characters in the terminal (write of device/char/ansiterm.c).  *)
(* Programs send their text in pieces; what is left of a character at the  *)
(* end of a piece waits in a small buffer for the next one.                *)
(***************************************************************************)
EXTENDS Integers, Sequences, SequencesExt, FiniteSetsExt

CONSTANTS Texts,        \* what is sent: sequences of bytes
          FragmentMax   \* 6, utf8_fragment_buf

VARIABLES text,         \* what is not sent yet
          buf,          \* what is left of the piece that is being written
          frag,         \* utf8_fragment_buf
          out,          \* the characters that reached put_char
          writing,      \* "no", "yes", or "lost" when memory outside was touched
          all, sound    \* the whole text; whether only what may be cut was cut

writeVars == <<text, buf, frag, out, writing, all, sound>>

Replacement == 65533    \* U+FFFD

\* The bytes of a character that begins with b.  No number of bytes is enough
\* behind 0xF8 and more: the -1 of the code is compared as unsigned.
Unending == 1000
Need(b) ==
    CASE b < 128 -> 1 [] b < 224 -> 2 [] b < 240 -> 3 [] b < 248 -> 4 [] OTHER -> Unending
Payload(b, need) ==
    CASE need = 1 -> b [] need = 2 -> b % 32 [] need = 3 -> b % 16 [] OTHER -> b % 8

\* get_seq_char: the piece goes on where the kept bytes end.
Pending == frag \o buf
Continues(b) == b \in 128 .. 191

\* The character at the start of a text: how many bytes of it, which one.
Taken(bytes) ==
    LET bad == {i \in 2 .. Need(bytes[1]) : ~Continues(bytes[i])}
    IN IF bad = {} THEN Need(bytes[1]) ELSE Min(bad) - 1
Char(bytes) ==
    IF Taken(bytes) < Need(bytes[1]) THEN Replacement
    ELSE FoldLeft(LAMBDA c, b : c * 64 + (b % 64), Payload(bytes[1], Need(bytes[1])),
                  SubSeq(bytes, 2, Need(bytes[1])))

Init ==
    /\ all \in Texts /\ text = all
    /\ buf = <<>> /\ frag = <<>> /\ out = <<>> /\ writing = "no" /\ sound = TRUE

\* A program writes the next n bytes.
write ==
    \E n \in 1 .. Len(text) :
        /\ writing = "no"
        /\ buf' = SubSeq(text, 1, n) /\ text' = SubSeq(text, n + 1, Len(text))
        /\ writing' = "yes"
        /\ UNCHANGED <<frag, out, all, sound>>

Complete == Len(Pending) >= Need(Pending[1])

\* The rest of a character that does not end in this piece is kept.
keep_fragment ==
    /\ writing = "yes" /\ buf # <<>> /\ ~Complete
    /\ frag' = Pending /\ buf' = <<>>
    /\ writing' = IF Len(Pending) > FragmentMax THEN "lost" ELSE "no"
    /\ sound' = (sound /\ Need(Pending[1]) < Unending
                       /\ \A i \in 2 .. Len(Pending) : Continues(Pending[i]))
    /\ UNCHANGED <<text, out, all>>

\* A slip to compare with: what was kept is still there behind the character.
PutCharKeeps ==
    LET used == Taken(Pending) - Len(frag)
    IN /\ writing = "yes" /\ buf # <<>> /\ Complete
       /\ out' = Append(out, Char(Pending))
       /\ buf' = IF used < 0 THEN <<>> ELSE SubSeq(buf, used + 1, Len(buf))
       /\ writing' = IF used < 0 THEN "lost" ELSE "yes"
       /\ UNCHANGED <<text, frag, all, sound>>

\* A character, whole or not.  One that was cut short before the end of the
\* kept bytes sends the code back to before the piece.
put_char ==
    LET used == Taken(Pending) - Len(frag)
    IN /\ writing = "yes" /\ buf # <<>> /\ Complete
       /\ out' = Append(out, Char(Pending))
       /\ buf' = IF used < 0 THEN <<>> ELSE SubSeq(buf, used + 1, Len(buf))
       /\ writing' = IF used < 0 THEN "lost" ELSE "yes"
       /\ frag' = <<>>
       /\ UNCHANGED <<text, all, sound>>

\* The console refuses the character: the rest of the piece is lost, and what
\* was kept is not, so that the next piece begins with it again.
put_char_fails ==
    /\ writing = "yes" /\ buf # <<>> /\ Complete
    /\ buf' = <<>> /\ writing' = "no" /\ sound' = FALSE
    /\ UNCHANGED <<text, frag, out, all>>

flush == writing = "yes" /\ buf = <<>> /\ writing' = "no" /\ UNCHANGED <<text, buf, frag, out, all, sound>>

Next == write \/ keep_fragment \/ put_char \/ put_char_fails \/ flush

-----------------------------------------------------------------------------
\* What the text says when it is read in one piece, up to a character that
\* does not end in it.
RECURSIVE Read(_)
Read(bytes) ==
    IF bytes = <<>> \/ Len(bytes) < Need(bytes[1]) THEN <<>>
    ELSE <<Char(bytes)>> \o Read(SubSeq(bytes, Taken(bytes) + 1, Len(bytes)))

(* However a text is cut into pieces, the terminal is sent the characters   *)
(* of the whole and no byte is lost, unless a piece ends in a character     *)
(* that is broken already.                                                  *)
CutsDoNotMatter ==
    sound => /\ writing # "lost"
             /\ out \o Read(Pending \o text) = Read(all)
=============================================================================
