-------------------------------- MODULE Menu --------------------------------
(***************************************************************************)
(* The boot menu (core/main.c): main sets up the terminal, reads the       *)
(* configuration, shows its menu and runs what is chosen, and then shells  *)
(* for ever.  A call of show_menu is an element of "menus"; it draws the   *)
(* options and waits for a key, so the options are drawn again after each. *)
(* An element of the configuration that has a wrong type ends in a panic.  *)
(***************************************************************************)
EXTENDS Json

CONSTANTS Configs,        \* what /config/boot.json may have, or <<>>: no such file
          MaxKeys         \* bound

VARIABLES phase, config, offset, utc, menus, ran, shown, keys, chosen

menuVars == <<phase, config, offset, utc, menus, ran, shown, keys, chosen>>

Element(obj, key) == VlJson_GetObjectElementValue(obj, key)
Lacks(obj, key) == Element(obj, key) = <<>>
Is1(obj, key, type) == ~Lacks(obj, key) /\ Is(Element(obj, key)[1], type)
\* An element is not there, or has one of some types.
Suits(obj, key, types) == Lacks(obj, key) \/ \E t \in types : Is1(obj, key, t)

Init ==
    /\ phase = "start" /\ config \in Configs /\ offset = 0 /\ utc = TRUE /\ menus = <<>>
    /\ ran = <<>> /\ shown = <<>> /\ keys = 0 /\ chosen = <<>>

\* The console on the first video device, a terminal on it, and the keyboard:
\* without one of them it ends here.
setup_tty ==
    /\ phase = "start"
    /\ phase' \in {"config", "panic"}
    /\ UNCHANGED <<config, offset, utc, menus, ran, shown, keys, chosen>>

-----------------------------------------------------------------------------
(* The configuration *)

\* A script is a line or a sequence of lines, run up to the first that is none.
LinesOf(obj, key) ==
    IF Is1(obj, key, "string") THEN <<Element(obj, key)[1]>> ELSE IF Is1(obj, key, "array") THEN Element(obj, key)[1].array ELSE <<>>
RECURSIVE Runs(_)
Runs(script) ==
    IF script = <<>> \/ ~Is(script[1], "string") THEN <<>> ELSE <<script[1].string>> \o Runs(Tail(script))
Whole(obj, key) == Suits(obj, key, {"string", "array"}) /\ Len(Runs(LinesOf(obj, key))) = Len(LinesOf(obj, key))

\* Up to where it is right; a zone that is named is not understood yet.
read_config ==
    /\ phase = "config"
    /\ IF config = <<>> THEN phase' = "main" /\ UNCHANGED <<offset, utc, ran>>
       ELSE LET c == config[1]
                early == Is(c, "object") /\ Suits(c, "password", {"string"})
                zone == early /\ Suits(c, "timezone", {"string", "number"})
                clock == zone /\ Suits(c, "rtc_utc", {"keyword"})
            IN /\ offset' = IF zone /\ Is1(c, "timezone", "number") THEN Element(c, "timezone")[1].number ELSE offset
               /\ utc' = IF clock /\ Is1(c, "rtc_utc", "keyword") THEN Element(c, "rtc_utc")[1].keyword = "true" ELSE utc
               /\ ran' = IF clock THEN Runs(LinesOf(c, "start_script")) ELSE <<>>
               /\ phase' = IF clock /\ Whole(c, "start_script") THEN "main" ELSE "panic"
    /\ UNCHANGED <<config, menus, shown, keys, chosen>>

-----------------------------------------------------------------------------
(* A menu *)

Number(obj, key, default) == IF Lacks(obj, key) THEN default ELSE Element(obj, key)[1].number
Options(menu) == Element(menu, "options")[1]
CountOf(menu) == VlJson_GetArrayElementCount(Options(menu))
Option(menu, i) == VlJson_GetArrayElementValue(Options(menu), i)
Readable(menu) ==
    /\ Suits(menu, "title", {"string"}) /\ Suits(menu, "timeout", {"number"}) /\ Suits(menu, "default", {"number"})
    /\ Is1(menu, "options", "array")
Named(menu) == \A i \in 0 .. CountOf(menu) - 1 : Is(Option(menu, i)[1], "object") /\ Is1(Option(menu, i)[1], "name", "string")

\* The line that stands out, if one does: those of the options, and "Go Back".
Marked(menu, selection, root) ==
    IF selection \in 0 .. CountOf(menu) - (IF root THEN 1 ELSE 0) THEN <<selection>> ELSE <<>>

\* What show_menu does on its way to the first key.
Shows(menu, root, below) ==
    IF ~Readable(menu) \/ ~Named(menu) THEN phase' = "panic" /\ menus' = below /\ UNCHANGED shown
    ELSE LET first == Number(menu, "default", 0)
         IN /\ menus' = Append(below, [menu |-> menu, selection |-> first, root |-> root])
            /\ shown' = Marked(menu, first, root) /\ phase' = "menu"

main ==
    /\ phase = "main"
    /\ IF config = <<>> \/ Lacks(config[1], "menu") THEN phase' = "shell" /\ UNCHANGED <<menus, shown>>
       ELSE IF ~Is1(config[1], "menu", "object") THEN phase' = "panic" /\ UNCHANGED <<menus, shown>>
       ELSE Shows(Element(config[1], "menu")[1], TRUE, <<>>)
    /\ UNCHANGED <<config, offset, utc, ran, keys, chosen>>

Now == Last(menus)
Key == phase = "menu" /\ keys < MaxKeys /\ keys' = keys + 1 /\ UNCHANGED <<config, offset, utc>>
\* The number of options is unsigned, and so is what it is compared with.
Below(selection, n) == selection >= 0 /\ selection < n

Moved(selection) ==
    /\ menus' = [menus EXCEPT ![Len(menus)].selection = selection]
    /\ shown' = Marked(Now.menu, selection, Now.root)
    /\ UNCHANGED <<phase, ran, chosen>>

key_up == Key /\ Moved(IF Now.selection > 0 THEN Now.selection - 1 ELSE Now.selection)

\* A slip to compare with: the last line of every menu is "Go Back".
key_down_further ==
    Key /\ Moved(IF Below(Now.selection, CountOf(Now.menu)) THEN Now.selection + 1 ELSE Now.selection)

key_down ==
    /\ Key
    /\ LET last == CountOf(Now.menu) - (IF Now.root THEN 1 ELSE 0)
       IN Moved(IF Below(Now.selection, last) THEN Now.selection + 1 ELSE Now.selection)

\* Another key, one that is let go, or an event that cannot be read.
key_other == Key /\ Moved(Now.selection)

\* The menu above begins again with its own choice, and the first one ends.
GoBack ==
    LET above == Front(menus)
        first == Number(Last(above).menu, "default", 0)
    IN IF above = <<>> THEN menus' = <<>> /\ phase' = "shell" /\ shown' = <<>>
       ELSE /\ menus' = [above EXCEPT ![Len(above)].selection = first]
            /\ shown' = Marked(Last(above).menu, first, Last(above).root) /\ phase' = "menu"

key_enter ==
    /\ Key
    /\ LET menu == Now.menu
           i == Now.selection
           option == Option(menu, i)[1]
       IN IF i = CountOf(menu) THEN GoBack /\ UNCHANGED <<ran, chosen>>
          ELSE IF i \notin 0 .. CountOf(menu) - 1 THEN phase' = "panic" /\ UNCHANGED <<menus, shown, ran, chosen>>
          ELSE /\ ran' = ran \o Runs(LinesOf(option, "script"))
               /\ chosen' = Append(chosen, shown \o [k \in DOMAIN menus |-> menus[k].selection])
               /\ IF ~Whole(option, "script") \/ ~Suits(option, "submenu", {"object"})
                  THEN phase' = "panic" /\ UNCHANGED <<menus, shown>>
                  ELSE IF Lacks(option, "submenu") THEN phase' = "shell" /\ menus' = <<>> /\ shown' = <<>>
                  ELSE Shows(Element(option, "submenu")[1], FALSE, menus)

Next == setup_tty \/ read_config \/ main \/ key_up \/ key_down \/ key_other \/ key_enter

Spec == Init /\ [][Next]_menuVars

-----------------------------------------------------------------------------
\* The options that a sequence of selections leads to, one below the other.
RECURSIVE Reached(_, _)
Reached(menu, path) ==
    LET option == Option(menu, path[1])[1]
    IN IF Len(path) = 1 THEN option ELSE Reached(Element(option, "submenu")[1], Tail(path))
RECURSIVE Meant(_)
Meant(choices) ==
    IF choices = <<>> THEN <<>>
    ELSE Runs(LinesOf(Reached(Element(config[1], "menu")[1], Tail(choices[1])), "script")) \o Meant(Tail(choices))
Plain(menu) == Readable(menu) /\ Named(menu) /\ Number(menu, "default", 0) \in 0 .. CountOf(menu) - 1
RECURSIVE Right(_)
Right(menu) ==
    Plain(menu) /\ \A i \in 0 .. CountOf(menu) - 1 :
        LET option == Option(menu, i)[1]
        IN /\ Whole(option, "script") /\ Suits(option, "submenu", {"object"})
           /\ Lacks(option, "submenu") \/ Right(Element(option, "submenu")[1])

(* What ran is the script of the start and those of the options that stood   *)
(* out when Enter was pressed, in this order; in a menu that is right some   *)
(* line stands out at any time; and only a configuration that is not right,  *)
(* or a terminal that is not there, ends in a panic.                         *)
ChoicesAreRun ==
    /\ phase \in {"menu", "shell"} /\ config # <<>> =>
         ran = Runs(LinesOf(config[1], "start_script")) \o Meant(chosen)
    /\ \A k \in DOMAIN chosen : chosen[k][1] = Last(chosen[k])
    /\ phase = "menu" /\ Plain(Now.menu) => shown = <<Now.selection>>
    /\ phase = "panic" /\ menus # <<>> => ~Right(menus[1].menu)
=============================================================================
