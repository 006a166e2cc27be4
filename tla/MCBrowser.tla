------------------------------ MODULE MCBrowser ------------------------------
(* Volumes of which one or another is the primary one, a root with one     *)
(* entry too many for the volumes to fit, directories that cannot be read, *)
(* and two archives, one without a ROM.                                    *)
(* The modules of the browser side by side: a behaviour is one of the      *)
(* module that part names, the others stay as they began.                  *)
EXTENDS Browser, BrowserKeys, UiPresenter

VARIABLE part   \* the module explored

MCSD  == <<"mnt", "sd">>
MCUsb == <<"mnt", "usb">>
MCSub == <<"mnt", "sd", "games">>
MCTop == <<"mnt", "usb", "games">>
MCTwo == <<"mnt", "usb2">>
MCOff == <<"mnt", "usb3">>   \* mounted, and cannot be read

MCStorages == {<<>>, <<MCSD, MCUsb, MCTwo, MCOff>>, <<MCUsb, MCSD>>}
MCDirs == {[name |-> n, kind |-> "dir"] : n \in {"bios", "games", "saves"}}
MCTree ==
  [p \in {MCSD, MCUsb, MCSub, MCTop, MCTwo} |->
     CASE p = MCSD  -> MCDirs
       [] p = MCSub -> {[name |-> "arc", kind |-> "zip"], [name |-> "set", kind |-> "zip"],
                        [name |-> "song", kind |-> "media"]}
       [] p = MCUsb -> {[name |-> "games", kind |-> "dir"], [name |-> "rom", kind |-> "rom"]}
       [] p = MCTwo -> {}
       [] p = MCTop -> {[name |-> "bin", kind |-> "unknown"]}]
MCMembers  == [a \in {"arc", "set"} |-> IF a = "arc" THEN {"rom", "data"} ELSE {"data"}]
MCRank ==
  [arc |-> 1, bin |-> 2, bios |-> 3, games |-> 4, rom |-> 5, saves |-> 6, sd |-> 7,
   set |-> 8, song |-> 9, usb |-> 10, usb2 |-> 11, usb3 |-> 12]
MCStartups == {<<"mnt", "sd", "games", "arc">>}

Parts == {"browser", "keys", "ui"}

PartsInit ==
  /\ part \in Parts
  /\ Init /\ KeysInit /\ UiInit
  /\ part # "browser" => storage = <<>> /\ auto = NoPath
  /\ part # "keys" => down = {}
  /\ part # "ui" => program = "browser" /\ ge

Alone(which, rest) == part = which /\ UNCHANGED <<part, rest>>

PartsNext ==
  \/ Next      /\ Alone("browser", <<keyVars, uiVars>>)
  \/ KeysNext  /\ Alone("keys",    <<vars, uiVars>>)
  \/ UiNext    /\ Alone("ui",      <<vars, keyVars>>)

PartsSpec == PartsInit /\ [][PartsNext]_<<part, vars, keyVars, uiVars>>
=============================================================================
