------------------------------ MODULE Climates ------------------------------
(***************************************************************************)
(* The two air conditioners of the house.  KenmoreAC and FrigidaireAC keep *)
(* the same variables, those of ClimateIRPower, and have nothing to do with*)
(* each other, so a behaviour is one of one of them: place says which.     *)
(***************************************************************************)
EXTENDS ClimateIRPower

CONSTANTS
  KenmoreRequests, FrigidaireRequests,   \* the calls of control() that are made
  FrigidaireCalls                        \* bound: how many for the Frigidaire

VARIABLE place

Kenmore == INSTANCE KenmoreAC WITH Requests <- KenmoreRequests
Frigidaire == INSTANCE FrigidaireAC WITH
  Requests <- FrigidaireRequests, MaxCalls <- FrigidaireCalls

ASSUME RequestsAssumption ==
  /\ KenmoreRequests \subseteq Kenmore!Calls
  /\ FrigidaireRequests \subseteq Frigidaire!Calls
  /\ FrigidaireCalls \in Nat

ClimatesInit == \/ place = "kenmore" /\ Kenmore!Init
                \/ place = "frigidaire" /\ Frigidaire!Init

KenmoreNext == place = "kenmore" /\ Kenmore!Next /\ UNCHANGED place
FrigidaireNext == place = "frigidaire" /\ Frigidaire!Next /\ UNCHANGED place

ClimatesNext == KenmoreNext \/ FrigidaireNext
ClimatesSpec == ClimatesInit /\ [][ClimatesNext]_<<place, vars>>

-----------------------------------------------------------------------------
(* The properties of each, where it is the one.                            *)

(* KenmoreAC!TypeOK and FrigidaireAC!TypeOK.                               *)
TypeOK == /\ place = "kenmore" => Kenmore!TypeOK
          /\ place = "frigidaire" => Frigidaire!TypeOK

(* The toggles never get out of step with the unit.                        *)
InStep == /\ place = "kenmore" => Kenmore!InStep
          /\ place = "frigidaire" => Frigidaire!InStep

(* Relative steps of the temperature add up.                               *)
TempInStep == place = "kenmore" => Kenmore!TempInStep

(* After one reading that counts the component knows whether the unit is   *)
(* on.                                                                     *)
PowerKnown == /\ place = "kenmore" => Kenmore!PowerKnown
              /\ place = "frigidaire" => Frigidaire!PowerKnown

(* Counted steps of the fan end where the component says.                  *)
FanReached == [][place = "frigidaire" => Frigidaire!FanArrives]_vars

(* That reading comes when calls and troubles end.                         *)
Learns == <>[](\/ place \notin {"kenmore", "frigidaire"}
               \/ seen \/ Blind
               \/ place = "frigidaire" /\ Frigidaire!Unknowable)
=============================================================================
