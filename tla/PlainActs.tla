----------------------------- MODULE PlainActs ------------------------------
(***************************************************************************)
(* The acts outside the duty cycle of SensorActs. They have nothing in     *)
(* common but the repository: a behaviour is one of one act, or of one     *)
(* channel with nodes of several acts, and the rest stays as it is.        *)
(***************************************************************************)
EXTENDS BusyActs, BrdAppTwelite, CueMagBuz, BhvParent, Talk

BusyOnes == {"PulseCounter", "Scratch", "Setting"}

PlainOnes ==
  BusyOnes \cup {"BRD_APPTWELITE", "Unit_Cue_MagBuz", "PAL_AMB-bhv parent", "channel"}

allBusyVars == <<busyVars, pulseVars>>

plainVars == <<act, allBusyVars, portVars, cueVars, bhvParentVars, chanVars>>

PlainInit ==
  /\ act \in PlainOnes
  /\ BusyInit /\ PulseInit /\ PortInit /\ BhvParentInit /\ TalkInit
  /\ CueInit /\ (act # "Unit_Cue_MagBuz" => pole = "none")

BusyPart ==
  /\ act \in BusyOnes /\ BusyNext
  /\ UNCHANGED <<portVars, cueVars, bhvParentVars, chanVars>>

PortPart ==
  /\ act = "BRD_APPTWELITE" /\ PortNext
  /\ UNCHANGED <<allBusyVars, cueVars, bhvParentVars, chanVars>>

CuePart ==
  /\ act = "Unit_Cue_MagBuz" /\ CueNext
  /\ UNCHANGED <<allBusyVars, portVars, bhvParentVars, chanVars>>

BhvParentPart ==
  /\ act = "PAL_AMB-bhv parent" /\ BhvParentNext
  /\ UNCHANGED <<allBusyVars, portVars, cueVars, chanVars>>

ChannelPart ==
  /\ act = "channel" /\ TalkNext
  /\ UNCHANGED <<allBusyVars, portVars, cueVars, bhvParentVars>>

PlainNext ==
  UNCHANGED act /\ (BusyPart \/ PortPart \/ CuePart \/ BhvParentPart \/ ChannelPart)

----------------------------------------------------------------------------
\* Fairness.

\* A processor that has something to do does it, and sleep ends by its timer. Nobody
\* has to type a key, and no request need ever be completed.
BusyFairness ==
  /\ WF_plainVars(BusyPart /\ UNCHANGED act /\ BusyStep)
  /\ SF_plainVars(BusyPart /\ UNCHANGED act /\ SettingPoll)

\* The timer ticks; the radio does not refuse every packet, nor lose every one.
PortFairness ==
  /\ WF_plainVars(PortPart /\ UNCHANGED act /\ Timer0Available)
  /\ SF_plainVars(PortPart /\ UNCHANGED act /\ Beat)
  /\ SF_plainVars(PortPart /\ UNCHANGED act /\ OnRxPacket)

\* No packet stays on its way for ever.
ChannelFairness ==
  WF_plainVars(ChannelPart /\ UNCHANGED act /\ \E n \in Nodes : Hear(n) \/ Lose(n))

PlainSpec ==
  /\ PlainInit /\ [][PlainNext]_plainVars
  /\ BusyFairness /\ PortFairness /\ ChannelFairness

----------------------------------------------------------------------------
\* The type of every act's state.
PlainTypeOK ==
  /\ act \in PlainOnes
  /\ BusyTypeOK /\ PortTypeOK /\ CueTypeOK /\ BhvParentTypeOK /\ TalkTypeOK
=============================================================================
