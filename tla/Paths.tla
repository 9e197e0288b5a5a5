-------------------------------- MODULE Paths --------------------------------
(***************************************************************************)
(* Paths (core/path.c).  A path is a sequence of characters: the name of a *)
(* file system and a colon, or neither; and names between slashes.  The    *)
(* iterator is the place it goes on from, and what it found there.         *)
(***************************************************************************)
EXTENDS Integers, Sequences, SequencesExt

\* The place of a character at or after another, or 0 (strchr).
Place(c, path, from) ==
    LET at == {k \in from .. Len(path) : path[k] = c}
    IN IF at = {} THEN 0 ELSE CHOOSE k \in at : \A j \in at : k <= j
CharIn(path, k) == IF k \in DOMAIN path THEN path[k] ELSE "end"
Colon(path) == Place(":", path, 1)

VlPath_InitIter(path) ==
    [element |-> SubSeq(path, 1, Colon(path) - 1), cursor |-> Colon(path) + 1, separator |-> FALSE, done |-> FALSE]

VlPath_AdvanceIter(path, it) ==
    LET separator == CharIn(path, it.cursor) = "/"
        p == IF separator THEN it.cursor + 1 ELSE it.cursor
        slash == Place("/", path, p)
        end == IF slash = 0 THEN Len(path) + 1 ELSE slash
    IN [element |-> SubSeq(path, p, end - 1), cursor |-> end, separator |-> separator, done |-> end > Len(path)]

RECURSIVE Rest(_, _)
Rest(path, it) == LET next == VlPath_AdvanceIter(path, it)
                  IN <<next.element>> \o IF next.done THEN <<>> ELSE Rest(path, next)
\* What the iterator finds one after the other, and what of it means something.
Elements(path) == Rest(path, VlPath_InitIter(path))
Dot == <<".">>
DotDot == <<".", ".">>
Names(path) == SelectSeq(Elements(path), LAMBDA e : e \notin {<<>>, Dot})

VlPath_IsAbsolute(path) ==
    CharIn(path, 1) = "/" \/ (Colon(path) # 0 /\ CharIn(path, Colon(path) + 1) \in {"/", "end"})

-----------------------------------------------------------------------------
(* Buffers: of len characters, the end of the text included *)

UpTo(str, n) == IF Len(str) < n THEN str ELSE SubSeq(str, 1, n)

\* A text that fills its buffer has no end.
VlPath_Join(dest, len, src) ==
    LET whole == dest \o <<"/">> \o src
    IN [str |-> UpTo(whole, len), ends |-> Len(whole) < len]

\* The loop that copies does not move on in the path: the whole buffer is
\* filled, with the path and what comes after its end.
Copied(len, path, end, old) == IF end <= 1 THEN old ELSE UpTo(path, len)
VlPath_GetFsname(old, len, path) == IF Colon(path) = 0 THEN <<>> ELSE Copied(len, path, Colon(path), old)
VlPath_GetDirname(old, len, path) ==
    LET slashes == {k \in DOMAIN path : path[k] = "/"}
    IN Copied(len, path, IF slashes = {} THEN Len(path) + 1 ELSE CHOOSE k \in slashes : \A j \in slashes : j <= k, old)

\* What is left of w when its last name is taken off, down to the character
\* at low; the slash before the name stays.
RECURSIVE Back(_, _, _)
Back(w, k, low) == IF k > low /\ CharIn(w, k) # "/" THEN Back(w, k - 1, low) ELSE k
LastSlash(w, low) == Back(w, IF CharIn(w, Len(w)) = "/" THEN Len(w) - 1 ELSE Len(w), low)

\* A slash, or a name, where there is room for it: at most len - 1 characters.
Slash(w, len) == IF Len(w) < len - 1 THEN Append(w, "/") ELSE w
Add(w, name, len) == IF Len(w) + Len(name) < len - 1 THEN w \o name ELSE w

\* "..": colon is the place of the colon, or 0.
UpAbsolute(w, colon, len) ==
    LET k == LastSlash(w, 1)
    IN IF w = <<>> THEN w
       ELSE IF k <= 1 \/ (colon # 0 /\ k <= colon + 1) THEN Slash(SubSeq(w, 1, colon), len)
       ELSE SubSeq(w, 1, k)
UpFrom(w, colon, len) ==
    LET k == LastSlash(w, colon + 1)
    IN IF Len(w) <= colon THEN Add(w, DotDot, len)
       ELSE IF k <= colon + 1 THEN SubSeq(w, 1, colon) ELSE SubSeq(w, 1, k)
Up(w, absolute, colon, len) ==
    IF absolute THEN UpAbsolute(w, colon, len)
    ELSE IF colon # 0 THEN UpFrom(w, colon, len)
    ELSE Add(IF w = <<>> THEN w ELSE Slash(w, len), DotDot, len)

Then(w, name, len) == Add(IF w # <<>> /\ Last(w) # "/" THEN Slash(w, len) ELSE w, name, len)

VlPath_Normalize(len, src) ==
    LET fs == VlPath_InitIter(src).element
        colon == IF fs = <<>> THEN 0 ELSE Len(fs) + 1
        absolute == CharIn(src, Colon(src) + 1) = "/"
        prefix == IF colon = 0 THEN <<>> ELSE Append(fs, ":")
        begun == IF absolute THEN Slash(prefix, len) ELSE prefix
        w == FoldLeft(LAMBDA done, e : IF e = DotDot THEN Up(done, absolute, colon, len) ELSE Then(done, e, len),
                      begun, Names(src))
        some == IF colon = 0 /\ w = <<>> /\ len > 1 THEN Dot ELSE w
        trailing == Len(some) > 1 /\ Last(some) = "/" /\ (colon = 0 \/ Len(some) > colon + 1)
    IN IF colon # 0 /\ colon >= len - 1 THEN <<>>
       ELSE IF trailing THEN Front(some) ELSE some

-----------------------------------------------------------------------------
(* What a path means: names are looked up from the root of a file system     *)
(* that is named, or of the current one, or from where one is.               *)

Resolved(path) ==
    LET rooted == VlPath_InitIter(path).element # <<>> \/ CharIn(path, Colon(path) + 1) = "/"
        Step(done, e) ==
            IF e # DotDot THEN Append(done, e)
            ELSE IF done # <<>> /\ Last(done) # DotDot THEN Front(done)
            ELSE IF rooted THEN done ELSE Append(done, e)
    IN [fs |-> VlPath_InitIter(path).element, rooted |-> rooted, names |-> FoldLeft(Step, <<>>, Names(path))]

\* A colon is that of a file system, not a part of a name.
Clear(path) == Colon(path) = 0 \/ (Colon(path) > 1 /\ ~Contains(SubSeq(path, 1, Colon(path)), "/"))
               \/ Place(":", path, Colon(path) + 1) = 0

(* Normalised, a path means what it meant if there is room for it, stays the *)
(* same when it is normalised again, and never takes more than its buffer;   *)
(* a path that is joined to another is looked up from there.                 *)
PathsAreKept(len, src, dir) ==
    LET normal == VlPath_Normalize(len, src)
        joined == VlPath_Join(dir, len, src)
    IN /\ Len(normal) < len /\ Len(joined.str) <= len
       /\ Len(src) + 3 < len /\ Clear(src) =>
            Resolved(normal) = Resolved(src) /\ VlPath_Normalize(len, normal) = normal
       /\ joined.ends /\ Colon(src) = 0 =>
            Names(joined.str) = Names(dir) \o Names(src)
=============================================================================
