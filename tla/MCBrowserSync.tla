--------------------------- MODULE MCBrowserSync ---------------------------
(* Instances for TLC of the browser's parts: the tab, the flash dialog and   *)
(* the LoRaWAN dialogs, which share no state and are checked one at a time.  *)
EXTENDS BrowserSync, FlashDialog, LorawanDialogs, TLC
CONSTANTS f1, f2, f3

VARIABLE part

MCInit ==
    /\ part \in {"tab", "flash", "lorawan"}
    /\ Init /\ FlashInit /\ LorawanInit
    /\ part = "lorawan" \/ dev.mac
MCNext ==
    \/ part = "tab" /\ Next /\ UNCHANGED <<part, flashVars, lorawanVars>>
    \/ part = "flash" /\ FlashNext /\ UNCHANGED <<part, vars, lorawanVars>>
    \/ part = "lorawan" /\ LorawanNext /\ UNCHANGED <<part, vars, flashVars>>
MCSpec == MCInit /\ [][MCNext]_<<part, vars, flashVars, lorawanVars>>

\* The slots for refreshes are interchangeable.
SlotSymmetry == Permutations(Slots)
=============================================================================
