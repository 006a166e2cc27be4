------------------------------ MODULE PauseMenu ------------------------------
(***************************************************************************)
(* The values of the pause menu of src/src/main.c and the core options it  *)
(* shows: register_core_options() and environment(), which the core calls  *)
(* while the game runs, and run_pause_menu() with change_pause_value().    *)
(*                                                                         *)
(* A value of an option is its index, an option what the core declared it  *)
(* with: how many values, and which of them the frontend prefers (the      *)
(* number of values when it prefers none of them).                         *)
(***************************************************************************)
EXTENDS Naturals, Sequences, FiniteSets

CONSTANTS CORE_OPTIONS_MAX, CORE_OPTION_VALUES_MAX, SAVE_STATE_SLOTS,
          FRAMESKIPS,     \* 6, the modulus of frameskip
          CoreFrame,      \* nanoseconds of a frame of the core
          Declarations    \* what cores pass to SET_VARIABLES

ASSUME MenuConstants ==
  /\ CORE_OPTIONS_MAX \in Nat /\ CORE_OPTION_VALUES_MAX \in Nat \ {0}
  /\ SAVE_STATE_SLOTS \in Nat \ {0} /\ FRAMESKIPS \in Nat \ {0} /\ CoreFrame \in Nat
  /\ Declarations \subseteq Seq([count : Nat, preferred : Nat])

VARIABLES menu,             \* whether run_pause_menu() runs
          selected_item, total, state_slot, frameskip,
          fast_forward_rate, uncapped_mode,
          pace,             \* the frame length sf2000_pacer_init() was given
          core_options, core_options_updated,
          known,            \* the values the core last read
          unread,           \* history: options registered since it read them
          benchmark         \* SF2000_UNCAPPED=1, until the rate is changed

cursor   == <<menu, selected_item, total>>
speed    == <<fast_forward_rate, uncapped_mode, benchmark>>
options  == <<core_options, core_options_updated, known, unread>>
menuVars == <<cursor, state_slot, frameskip, speed, pace, options>>

Rates == <<1, 2, 3, 4, 0>>     \* change_pause_value(): rates[]; 0 is UNLIMITED

Selected == [i \in 1 .. Len(core_options) |-> core_options[i].selected]

MenuInit ==
  /\ menu = FALSE /\ selected_item = 0 /\ total = 7
  /\ state_slot = 0 /\ frameskip = 0
  /\ fast_forward_rate = 1 /\ benchmark \in BOOLEAN /\ uncapped_mode = benchmark
  /\ pace = CoreFrame
  /\ core_options = <<>> /\ core_options_updated = FALSE
  /\ known = <<>> /\ unread = FALSE
-----------------------------------------------------------------------------
(* register_core_options(): options without a value are passed over.       *)
AtMost(n, limit) == IF n < limit THEN n ELSE limit

HasValues_Any(option) == TRUE
HasValues(option) == option.count > 0

Kept(variables) == {i \in DOMAIN variables : HasValues(variables[i])}
NthOf(kept, n) == CHOOSE i \in kept : Cardinality({j \in kept : j < i}) = n - 1

Registered(variables) ==
  LET kept == Kept(variables)
      Option(declared) ==
        LET count == AtMost(declared.count, CORE_OPTION_VALUES_MAX) IN
        [value_count |-> count,
         selected |-> IF declared.preferred < count THEN declared.preferred ELSE 0]
  IN [n \in 1 .. AtMost(Cardinality(kept), CORE_OPTIONS_MAX) |->
        Option(variables[NthOf(kept, n)])]

SetVariables ==
  /\ ~menu
  /\ \E variables \in Declarations : core_options' = Registered(variables)
  /\ unread' = TRUE
  /\ UNCHANGED <<cursor, state_slot, frameskip, speed, pace, core_options_updated, known>>

(* A core asks for each of its options, as it does when it loads.          *)
GetVariables ==
  /\ ~menu
  /\ known' = Selected /\ unread' = FALSE
  /\ UNCHANGED <<cursor, state_slot, frameskip, speed, pace, core_options, core_options_updated>>

(* GET_VARIABLE_UPDATE, in every frame: a core that is told of a change    *)
(* asks for each of them again.                                            *)
GetVariableUpdate ==
  /\ ~menu
  /\ core_options_updated' = FALSE
  /\ IF core_options_updated THEN known' = Selected /\ unread' = FALSE
                             ELSE UNCHANGED <<known, unread>>
  /\ UNCHANGED <<cursor, state_slot, frameskip, speed, pace, core_options>>
-----------------------------------------------------------------------------
Opened_NoOptions == 7
Opened == 7 + Len(core_options)

OpenPauseMenu ==
  /\ ~menu
  /\ menu' = TRUE /\ selected_item' = 0 /\ total' = Opened
  /\ UNCHANGED <<state_slot, frameskip, speed, pace, options>>

(* UP and DOWN.                                                            *)
MoveCursor ==
  /\ menu
  /\ selected_item' \in {(selected_item + 1) % total, (selected_item + total - 1) % total}
  /\ UNCHANGED <<menu, total, state_slot, frameskip, speed, pace, options>>

(* change_pause_value(): one step either way in a ring of n values.        *)
Beside(value, n) == {(value + 1) % n, (value + n - 1) % n}

(* set_uncapped_mode() of the new rate.                                    *)
Uncapped_OnlyOn(rate) == uncapped_mode \/ rate = 0
Uncapped(rate) == rate = 0

ChangeRate ==
  /\ menu /\ selected_item = 1
  /\ \E index \in 1 .. Len(Rates) :
       /\ Rates[index] = fast_forward_rate
       /\ \E next \in Beside(index - 1, Len(Rates)) : fast_forward_rate' = Rates[next + 1]
  /\ uncapped_mode' = Uncapped(fast_forward_rate') /\ benchmark' = FALSE
  /\ UNCHANGED <<cursor, state_slot, frameskip, pace, options>>

ChangeFrameskip ==
  /\ menu /\ selected_item = 2
  /\ frameskip' \in Beside(frameskip, FRAMESKIPS)
  /\ UNCHANGED <<cursor, state_slot, speed, pace, options>>

ChangeSlot ==
  /\ menu /\ selected_item = 3
  /\ state_slot' \in Beside(state_slot, SAVE_STATE_SLOTS)
  /\ UNCHANGED <<cursor, frameskip, speed, pace, options>>

OptionAt(item) == item - 5    \* core_options[item - 6u], counted from 1

Announced_Kept == core_options_updated
Announced == TRUE

ChangeOption ==
  /\ menu /\ 6 <= selected_item /\ selected_item < 6 + Len(core_options)
  /\ \E next \in Beside(core_options[OptionAt(selected_item)].selected,
                        core_options[OptionAt(selected_item)].value_count) :
       core_options' = [core_options EXCEPT ![OptionAt(selected_item)].selected = next]
  /\ core_options_updated' = Announced
  /\ UNCHANGED <<cursor, state_slot, frameskip, speed, pace, known, unread>>

(* run_pause_menu(): resuming starts a new timeline.                       *)
Effective_Capped(rate) == IF rate > 2 THEN CoreFrame \div rate ELSE CoreFrame
Effective(rate) == IF rate > 1 THEN CoreFrame \div rate ELSE CoreFrame

ResumeGame ==
  /\ menu
  /\ menu' = FALSE /\ pace' = Effective(fast_forward_rate)
  /\ UNCHANGED <<selected_item, total, state_slot, frameskip, speed, options>>

MenuNext ==
  \/ SetVariables \/ GetVariables \/ GetVariableUpdate
  \/ OpenPauseMenu \/ MoveCursor \/ ChangeRate \/ ChangeFrameskip \/ ChangeSlot
  \/ ChangeOption \/ ResumeGame

MenuSpec == MenuInit /\ [][MenuNext]_menuVars
-----------------------------------------------------------------------------
(* render_pause_menu(): the item a row is labelled with, its option        *)
(* included; and run_pause_menu(): what A does there.                      *)
Label(item) ==
  CASE item < 6 -> <<"item", item>>
    [] 6 <= item /\ item < 6 + Len(core_options) -> <<"option", OptionAt(item)>>
    [] OTHER -> <<"exit">>
PressA(item) ==
  CASE item = 0 -> <<"item", 0>>
    [] item # 0 /\ item = total - 1 -> <<"exit">>
    [] item \in (1 .. 5) \ {total - 1} -> <<"item", item>>
    [] OTHER -> <<"option", OptionAt(item)>>

(* Whatever options cores register, each row does what it says, EXIT is    *)
(* the last and only the last, and no option that can be shown or changed  *)
(* is without a value or beyond its values.                                *)
MenuSound ==
  /\ selected_item < total
  /\ menu => total = 7 + Len(core_options) /\ Label(selected_item) = PressA(selected_item)
  /\ \A i \in 1 .. Len(core_options) :
       /\ core_options[i].selected < core_options[i].value_count
       /\ core_options[i].value_count <= CORE_OPTION_VALUES_MAX
  /\ Len(core_options) <= CORE_OPTIONS_MAX
  /\ frameskip < FRAMESKIPS /\ state_slot < SAVE_STATE_SLOTS
  /\ \E i \in 1 .. Len(Rates) : Rates[i] = fast_forward_rate

(* A value changed in the menu reaches the core: as long as it knows       *)
(* another, and has read its options since it registered them, the next    *)
(* GET_VARIABLE_UPDATE tells it.                                           *)
OptionsReachCore == unread \/ core_options_updated \/ known = Selected

(* The speed in force is the one the menu shows: at 1X to 4X a frame is    *)
(* given its whole share of the core's own, in nanoseconds rounded down;   *)
(* audio and the sleep are suppressed at UNLIMITED, and in a benchmark.    *)
PaceAsShown ==
  /\ uncapped_mode = (fast_forward_rate = 0 \/ benchmark)
  /\ ~menu /\ fast_forward_rate # 0 =>
       /\ fast_forward_rate * pace <= CoreFrame
       /\ CoreFrame < fast_forward_rate * (pace + 1)
=============================================================================
