--------------------------- MODULE HardwarePlugin ---------------------------
(***************************************************************************)
(* The hardware plugins (addons/intel, addons/generic, pkg/plugin) and the *)
(* parts of the daemon and of the main program that use what they produce: *)
(* the delay compensations of the pins, the settings from which the DPLL   *)
(* monitors are made, and the hardware status that is published.           *)
(*                                                                         *)
(* Three kinds of goroutine share state without a lock: the daemon applies *)
(* a profile, the main program spawns a publisher when refreshNodePtpDevice*)
(* is set and hands over new profiles, and the publishers copy the list of *)
(* the hardware status into the NodePtpDevice resource.                    *)
(*                                                                         *)
(* An update has one profile, with a section for the plugin and one        *)
(* interface per card.  The cards, their pins and the API server are       *)
(* external.                                                               *)
(***************************************************************************)
EXTENDS Integers, Sequences

CONSTANTS
  Profiles,      \* the configurations, see Profile below
  clockIdOf,     \* the clock ID of the card of an interface
  BoardPins,     \* the pins DumpPinGet returns, a sequence of [clockId, label]
  RefusingPins,  \* pins whose driver does not take a phase adjustment
  Publishers,    \* bound on the publishers alive at once
  MaxUpdates,    \* bound on the profiles applied
  MaxCrashes,    \* bound on the crashes other than a panic, before the last
                 \* profile is applied
  None           \* a nil pointer, or an empty string

Ifaces == DOMAIN clockIdOf
Pins == {BoardPins[i] : i \in DOMAIN BoardPins}

(* The clock ID of a card whose PCI configuration cannot be read.          *)
NoClock == 0

(* A profile: the interfaces of "pins", the list of "interconnections",    *)
(* "phaseOffsetPins", the label by property by interface, the "settings"   *)
(* of the plugin and those of the profile itself, whether a ublx command   *)
(* reports its output, the options of the reference plugin, and the        *)
(* interfaces that get a DPLL monitor.                                     *)
Delays == [id : STRING, part : STRING, input : STRING \cup {None}, inputDelay : Int,
           gnssInput : BOOLEAN, outputs : Seq(STRING)]
Profile(c) ==
  /\ c.pins \subseteq Ifaces
  /\ c.delays \in Seq(Delays)
  /\ c.reportOutput \in BOOLEAN
  /\ c.dplls \in Seq(Ifaces)

ASSUME HardwarePluginAssumption ==
  /\ \A c \in Profiles : Profile(c)
  /\ \A i, j \in Ifaces : i # j => clockIdOf[i] # clockIdOf[j]
  /\ \A i \in Ifaces : clockIdOf[i] # NoClock
  /\ BoardPins \in Seq(Pins)
  /\ \A pin \in Pins : pin.clockId # NoClock
  /\ RefusingPins \subseteq Pins

VARIABLES
  pc,            \* where the daemon is in applyNodePTPProfiles
  profile,       \* the profile it applies
  settings,      \* PtpSettings of the profile
  comps,         \* the compensations, None when they cannot be computed
  todo,          \* pins sendDelayCompensation has still to look at
  sendErr,       \* its error, which is only logged
  phaseAdjust,   \* the phase adjustment of a pin, in the hardware
  dplls,         \* the DPLL monitors it has created and not yet started
  hwplugins,     \* the output of the ublx commands kept by the e810 plugin
  reference,     \* referenceString of the reference plugin
  hwconfigs,     \* the hardware status
  toAdd,         \* what PopulateHwConfig has still to append
  refresh,       \* refreshNodePtpDevice
  main,          \* where the main program is
  publisher,     \* where a publisher is, and what it holds
  resource,      \* the NodePtpDevice resource: the hardware status in it
  version,       \* counts the states hwconfigs has been in
  updates, crashes

apply == <<pc, profile, settings, comps, todo, sendErr, dplls>>
status == <<hwplugins, reference, hwconfigs, toAdd, version>>
publish == <<refresh, main, publisher, resource>>
bounds == <<updates, crashes>>
vars == <<pc, profile, settings, comps, todo, sendErr, phaseAdjust, dplls,
          hwplugins, reference, hwconfigs, toAdd, refresh, main, publisher,
          resource, version, updates, crashes>>

(* A publisher that is not running.  One that runs holds the resource it   *)
(* got, which may not be the newest any more, and a copy of the status.    *)
Free == [pc |-> "free", newest |-> FALSE, copy |-> None]

-----------------------------------------------------------------------------
(* The internal delays of the only part that is known.                     *)

KnownPart == "E810-XXVDA4T"

Link(connector, pin, delayPs) == [connector |-> connector, pin |-> pin, delayPs |-> delayPs]

ExternalInputs ==
  {Link("SMA1", "SMA1", 7658), Link("SMA2", "SMA2/U.FL2", 7385),
   Link("u.FL2", "SMA2/U.FL2", 9795)}
ExternalOutputs ==
  {Link("u.FL1", "REF-SMA1", 1274), Link("SMA1", "REF-SMA1", 1376),
   Link("SMA2", "REF-SMA2/U.FL2", 2908)}
GnssLink == Link("GNSS", "GNSS-1PPS", 6999)

FindInternalLink(links, connector) ==
  CHOOSE link \in links : link.connector = connector
HasLink(links, connector) == \E link \in links : link.connector = connector

(* findDelayCompensation: the connectors of a profile are ordered by the   *)
(* place of the card, and on the card: the input, GNSS, the outputs.       *)
Slots(card) ==
  (IF card.input = None THEN {} ELSE {1}) \cup (IF card.gnssInput THEN {2} ELSE {})
    \cup {2 + o : o \in DOMAIN card.outputs}

Connectors ==
  UNION {{i} \X Slots(profile.delays[i]) : i \in DOMAIN profile.delays}

Before(a, b) == a[1] < b[1] \/ (a[1] = b[1] /\ a[2] < b[2])
Last(conns) == CHOOSE a \in conns : \A b \in conns : ~Before(a, b)

LinkOf(card, slot) ==
  CASE slot = 1 -> FindInternalLink(ExternalInputs, card.input)
    [] slot = 2 -> GnssLink
    [] OTHER -> FindInternalLink(ExternalOutputs, card.outputs[slot - 2])

Comp(card, slot) ==
  [delayPs |-> LinkOf(card, slot).delayPs + IF slot = 1 THEN card.inputDelay ELSE 0,
   label |-> LinkOf(card, slot).pin,
   clockId |-> settings.clockId[card.id]]

(* A card without a clock ID does not fail if it has no connector.         *)
CardFails(card) ==
  \/ card.part # KnownPart
  \/ card.input # None /\ ~HasLink(ExternalInputs, card.input)
  \/ \E i \in DOMAIN card.outputs : ~HasLink(ExternalOutputs, card.outputs[i])
  \/ Slots(card) # {} /\ card.id \notin DOMAIN settings.clockId

FindDelayCompensation ==
  IF \E i \in DOMAIN profile.delays : CardFails(profile.delays[i])
  THEN None
  ELSE [c \in Connectors |-> Comp(profile.delays[c[1]], c[2])]

(* sendDelayCompensation: the connectors of a pin.                         *)
(* Slips: the clock ID is not compared; the first one is the last one.     *)
CompsOfLabel(pin) == {c \in DOMAIN comps : comps[c].label = pin.label}

FirstCompOf(pin) ==
  LET mine == {c \in DOMAIN comps : comps[c].clockId = pin.clockId /\ comps[c].label = pin.label}
  IN {c \in mine : \A d \in mine : ~Before(d, c)}

CompsOf(pin) ==
  {c \in DOMAIN comps : comps[c].clockId = pin.clockId /\ comps[c].label = pin.label}

-----------------------------------------------------------------------------
(* The daemon applies a profile.                                           *)

(* UpdateConfig hands the profile over; the processes are stopped and the  *)
(* list of the status is cleared.                                          *)
ApplyNodePTPProfiles(c) ==
  /\ main = "config"
  /\ pc = "idle"
  /\ updates < MaxUpdates
  /\ updates' = updates + 1
  /\ main' = "wait"
  /\ profile' = c
  /\ hwconfigs' = <<>>
  /\ version' = version + 1
  /\ pc' = "plugin"
  /\ UNCHANGED <<settings, comps, todo, sendErr, phaseAdjust, dplls, hwplugins,
                 reference, toAdd, refresh, publisher, resource, crashes>>

(* The reference plugin keeps its options; an empty string changes nothing.*)
OnPTPConfigChangeGeneric ==
  reference' = IF profile.reference = None THEN reference ELSE profile.reference

(* OnPTPConfigChange of both plugins.  That of e810 puts the clock ID of   *)
(* each interface of "pins" into the settings, or 0.                       *)
OnPTPConfigChange ==
  /\ pc = "plugin"
  /\ \E readable \in SUBSET profile.pins :
       settings' =
         [clockId |-> [i \in profile.pins |->
                         IF i \in readable THEN clockIdOf[i] ELSE NoClock],
          dpll |-> profile.settings,
          filter |-> {}]
  /\ OnPTPConfigChangeGeneric
  /\ pc' = "delays"
  /\ UNCHANGED <<profile, comps, todo, sendErr, phaseAdjust, dplls, hwplugins,
                 hwconfigs, toAdd, version>>
  /\ UNCHANGED <<publish, bounds>>

(* findDelayCompensation, and Dial and DumpPinGet of sendDelayCompensation.*)
SendDelayCompensation ==
  /\ pc = "delays"
  /\ comps' = FindDelayCompensation
  /\ \/ todo' = BoardPins /\ sendErr' = FALSE /\ pc' = "send"
     \/ todo' = <<>> /\ sendErr' = TRUE /\ pc' = "settings"
  /\ UNCHANGED <<profile, settings, phaseAdjust, dplls>>
  /\ UNCHANGED <<status, publish, bounds>>

(* A pin of the dump: its compensations are sent one after the other, and  *)
(* the first that cannot be sent ends the function.  The kernel is not     *)
(* asked for an acknowledgement.  comps is dereferenced although it is nil *)
(* when it could not be computed.                                          *)
PinPhaseAdjust ==
  /\ pc = "send"
  /\ todo # <<>>
  /\ comps # None
  /\ LET pin == Head(todo)
         mine == CompsOf(pin)
     IN \E sent \in SUBSET mine :
          /\ \A c \in sent, d \in mine : Before(d, c) => d \in sent
          /\ phaseAdjust' = IF sent = {} \/ pin \in RefusingPins THEN phaseAdjust
                            ELSE [phaseAdjust EXCEPT ![pin] = comps[Last(sent)].delayPs]
          /\ sendErr' = (sent # mine)
          /\ pc' = IF sent = mine THEN "send" ELSE "settings"
          /\ todo' = IF sent = mine THEN Tail(todo) ELSE <<>>
  /\ UNCHANGED <<profile, settings, comps, dplls>>
  /\ UNCHANGED <<status, publish, bounds>>

NilCompensations ==
  /\ pc = "send"
  /\ todo # <<>>
  /\ comps = None
  /\ pc' = "panic"
  /\ UNCHANGED <<profile, settings, comps, todo, sendErr, phaseAdjust, dplls>>
  /\ UNCHANGED <<status, publish, bounds>>

SentAll ==
  /\ pc = "send"
  /\ todo = <<>>
  /\ pc' = "settings"
  /\ UNCHANGED <<profile, settings, comps, todo, sendErr, phaseAdjust, dplls>>
  /\ UNCHANGED <<status, publish, bounds>>

(* "settings" of the plugin do not replace those of the profile.           *)
Defaults(own, plugin) ==
  [k \in DOMAIN own \cup DOMAIN plugin |-> IF k \in DOMAIN own THEN own[k] ELSE plugin[k]]

(* The phase offset pins: an interface that is not in "pins" ends the      *)
(* loop.  A key has the clock ID of the card, which is read for each       *)
(* property again and may be read for one and not for the next.            *)
AddSettings ==
  /\ pc = "settings"
  /\ LET pins == profile.phaseOffsetPins
         known == DOMAIN pins \cap profile.pins
     IN \E done \in IF DOMAIN pins = known THEN {known} ELSE SUBSET known :
          LET keys == UNION {{i} \X DOMAIN pins[i] : i \in done} IN
          \E readable \in SUBSET keys :
            settings' =
              [settings EXCEPT
                 !.dpll = Defaults(@, profile.pluginSettings),
                 !.filter = {[id |-> IF k \in readable THEN clockIdOf[k[1]] ELSE NoClock,
                              property |-> k[2],
                              label |-> pins[k[1]][k[2]]] : k \in keys}]
  /\ pc' = "create"
  /\ UNCHANGED <<profile, comps, todo, sendErr, phaseAdjust, dplls>>
  /\ UNCHANGED <<status, publish, bounds>>

(* The function returns.                                                   *)
NoSettings == [clockId |-> <<>>, dpll |-> <<>>, filter |-> {}]
Return ==
  /\ pc' = "idle"
  /\ profile' = None
  /\ settings' = NoSettings
  /\ comps' = None
  /\ todo' = <<>>
  /\ sendErr' = FALSE
  /\ dplls' = <<>>

(* The rest of applyNodePtpProfile.  The clock ID of an interface that has *)
(* none in the settings is that of an interface before it.                 *)
ClockIdOfDpll(n) ==
  LET before == {i \in 1 .. n : profile.dplls[i] \in DOMAIN settings.clockId}
  IN IF before = {} THEN NoClock
     ELSE settings.clockId[profile.dplls[CHOOSE i \in before : \A j \in before : j <= i]]

(* A slip: one map of properties for all DPLLs.                            *)
EntriesOfAnyCard(clockId) == settings.filter

EntriesOf(clockId) == {e \in settings.filter : e.id = clockId}

(* GetPhaseOffsetPinFilter, as a DPLL uses it: the label by property.  Of  *)
(* the cards that share an entry because they have no clock ID, any may    *)
(* have the last word on a property.                                       *)
FiltersOf(clockId) ==
  {f \in [{e.property : e \in EntriesOf(clockId)} -> {e.label : e \in EntriesOf(clockId)}] :
     \A p \in DOMAIN f : \E e \in EntriesOf(clockId) : e.property = p /\ e.label = f[p]}

NewDpll(n, filter) ==
  [iface |-> profile.dplls[n],
   clockId |-> ClockIdOfDpll(n),
   filter |-> filter,
   settings |-> settings.dpll]

(* If the profile cannot be applied the status is not populated.  Nothing  *)
(* looks at its settings again.                                            *)
CreateDplls ==
  /\ pc = "create"
  /\ \/ /\ \E filter \in [DOMAIN profile.dplls ->
                        UNION {FiltersOf(ClockIdOfDpll(n)) : n \in DOMAIN profile.dplls}] :
             /\ \A n \in DOMAIN filter : filter[n] \in FiltersOf(ClockIdOfDpll(n))
             /\ dplls' = [n \in DOMAIN filter |-> NewDpll(n, filter[n])]
        /\ pc' = "commands"
        /\ settings' = NoSettings
        /\ UNCHANGED <<profile, comps, todo, sendErr>>
     \/ Return
  /\ UNCHANGED phaseAdjust
  /\ UNCHANGED <<status, publish, bounds>>

(* The processes are started, which the DPLL monitors are with from now on.*)
(* AfterRunPTPCommand, called for gpspipe: the output of the commands that *)
(* report it is kept, with that of earlier profiles.  The number of the    *)
(* update stands for it.                                                   *)
AfterRunPTPCommand ==
  /\ pc = "commands"
  /\ hwplugins' = IF profile.reportOutput THEN Append(hwplugins, updates) ELSE hwplugins
  /\ toAdd' = Append(hwplugins', reference)
  /\ pc' = "populate"
  /\ dplls' = <<>>
  /\ UNCHANGED <<profile, settings, comps, todo, sendErr, phaseAdjust,
                 reference, hwconfigs, version>>
  /\ UNCHANGED <<publish, bounds>>

(* PopulateHwConfig of both plugins, one element after the other.  They    *)
(* are called in the order of a map, which nothing here depends on.        *)
PopulateHwConfig ==
  /\ pc = "populate"
  /\ toAdd # <<>>
  /\ hwconfigs' = Append(hwconfigs, Head(toAdd))
  /\ toAdd' = Tail(toAdd)
  /\ version' = version + 1
  /\ UNCHANGED <<hwplugins, reference, phaseAdjust>>
  /\ UNCHANGED <<apply, publish, bounds>>

Populated ==
  /\ pc = "populate"
  /\ toAdd = <<>>
  /\ refresh' = TRUE
  /\ Return
  /\ UNCHANGED <<phaseAdjust, main, publisher, resource>>
  /\ UNCHANGED <<status, bounds>>

-----------------------------------------------------------------------------
(* The main program: one tick.  A panic in the daemon ends it, too.        *)

Running == pc # "panic"

(* refreshNodePtpDevice is tested, and cleared after the publisher has     *)
(* been started.                                                           *)
Tick ==
  /\ Running
  /\ main = "wait"
  /\ \/ /\ refresh
        /\ \E p \in Publishers :
             /\ publisher[p] = Free
             /\ publisher' = [publisher EXCEPT ![p] = [Free EXCEPT !.pc = "get"]]
        /\ main' = "reset"
     \/ ~refresh /\ main' = "config" /\ UNCHANGED publisher
  /\ UNCHANGED <<refresh, resource, phaseAdjust>>
  /\ UNCHANGED <<apply, status, bounds>>

ResetRefresh ==
  /\ Running
  /\ main = "reset"
  /\ refresh' = FALSE
  /\ main' = "config"
  /\ UNCHANGED <<publisher, resource, phaseAdjust>>
  /\ UNCHANGED <<apply, status, bounds>>

(* UpdateConfig with the profile that was applied last, or none.           *)
SameConfig ==
  /\ Running
  /\ main = "config"
  /\ main' = "wait"
  /\ UNCHANGED <<refresh, publisher, resource, phaseAdjust>>
  /\ UNCHANGED <<apply, status, bounds>>

-----------------------------------------------------------------------------
(* runDeviceStatusUpdate.                                                  *)

(* Get; when it fails the empty resource is not accepted in the end.       *)
GetResource(p) ==
  /\ Running
  /\ publisher[p].pc = "get"
  /\ \/ publisher' = [publisher EXCEPT ![p].pc = "read", ![p].newest = TRUE]
     \/ publisher' = [publisher EXCEPT ![p] = Free]
  /\ UNCHANGED <<refresh, main, resource, phaseAdjust>>
  /\ UNCHANGED <<apply, status, bounds>>

(* The daemon writes the list of the status while it is read: what is      *)
(* found then is not a list that ever was, for which None stands.          *)
BeingWritten ==
  \/ pc = "populate" /\ toAdd # <<>>
  \/ pc = "idle" /\ main = "config" /\ hwconfigs # <<>>

PopulateNodePTPDevices(p) ==
  /\ Running
  /\ publisher[p].pc = "read"
  /\ \E list \in {hwconfigs} \cup IF BeingWritten THEN {None} ELSE {} :
       publisher' = [publisher EXCEPT ![p].pc = "update",
                                      ![p].copy = [hwconfig |-> list, of |-> version]]
  /\ UNCHANGED <<refresh, main, resource, phaseAdjust>>
  /\ UNCHANGED <<apply, status, bounds>>

(* The resource is replaced: what other publishers have got is outdated.   *)
Replace(p) ==
  /\ resource' = publisher[p].copy
  /\ publisher' = [q \in Publishers |-> IF q = p THEN Free
                                        ELSE [publisher[q] EXCEPT !.newest = FALSE]]

(* A slip: when it is refused the resource is got again, and the copy that *)
(* was made before is sent.                                                *)
UpdateStatusRetried(p) ==
  /\ Running
  /\ publisher[p].pc = "update"
  /\ IF publisher[p].newest
     THEN Replace(p)
     ELSE publisher' = [publisher EXCEPT ![p].newest = TRUE] /\ UNCHANGED resource
  /\ UNCHANGED <<refresh, main, phaseAdjust>>
  /\ UNCHANGED <<apply, status, bounds>>

(* UpdateStatus: the API server refuses a resource that was got before the *)
(* last update.  An error is only logged.                                  *)
UpdateStatus(p) ==
  /\ Running
  /\ publisher[p].pc = "update"
  /\ \/ publisher[p].newest /\ Replace(p)
     \/ publisher' = [publisher EXCEPT ![p] = Free] /\ UNCHANGED resource
  /\ UNCHANGED <<refresh, main, phaseAdjust>>
  /\ UNCHANGED <<apply, status, bounds>>

-----------------------------------------------------------------------------
Init ==
  /\ pc = "idle"
  /\ profile = None
  /\ settings = NoSettings
  /\ comps = None
  /\ todo = <<>>
  /\ sendErr = FALSE
  /\ dplls = <<>>
  /\ hwplugins = <<>>
  /\ reference = None
  /\ hwconfigs = <<>>
  /\ toAdd = <<>>
  /\ refresh = TRUE
  /\ main = "wait"
  /\ publisher = [p \in Publishers |-> Free]
  /\ phaseAdjust = [pin \in Pins |-> 0]
  /\ resource = [hwconfig |-> <<>>, of |-> 0]
  /\ version = 0
  /\ updates = 0
  /\ crashes = 0

(* The container is started again after a panic or another crash: the      *)
(* hardware and the resource are as they were.                             *)
Restart ==
  /\ \/ pc = "panic" /\ UNCHANGED crashes
     \/ crashes < MaxCrashes /\ updates < MaxUpdates /\ crashes' = crashes + 1
  /\ Return
  /\ hwplugins' = <<>>
  /\ reference' = None
  /\ hwconfigs' = <<>>
  /\ toAdd' = <<>>
  /\ refresh' = TRUE
  /\ main' = "wait"
  /\ publisher' = [p \in Publishers |-> Free]
  /\ version' = version + 1
  /\ UNCHANGED <<phaseAdjust, resource, updates>>

Daemon ==
  \/ \E c \in Profiles : ApplyNodePTPProfiles(c)
  \/ OnPTPConfigChange
  \/ SendDelayCompensation
  \/ PinPhaseAdjust
  \/ NilCompensations
  \/ SentAll
  \/ AddSettings
  \/ CreateDplls
  \/ AfterRunPTPCommand
  \/ PopulateHwConfig
  \/ Populated

Main == Tick \/ ResetRefresh \/ SameConfig

Publisher(p) == GetResource(p) \/ PopulateNodePTPDevices(p) \/ UpdateStatus(p)

Next ==
  \/ Daemon
  \/ Main
  \/ \E p \in Publishers : Publisher(p)
  \/ Restart

Spec == Init /\ [][Next]_vars

(* The goroutines are scheduled.                                           *)
FairSpec ==
  /\ Spec
  /\ WF_vars(Daemon)
  /\ WF_vars(Main)
  /\ \A p \in Publishers : WF_vars(Publisher(p))

-----------------------------------------------------------------------------
(* Properties.                                                             *)

(* The compensation that counts for a pin: the last one of the profile     *)
(* with its card and its label.                                            *)
Matching(pin) ==
  {c \in DOMAIN comps : comps[c].clockId = pin.clockId /\ comps[c].label = pin.label}
Wanted(pin) == comps[Last(Matching(pin))].delayPs

(* When the compensations were sent without an error, every pin that takes *)
(* an adjustment has the one of its last connector in the profile, what-   *)
(* ever earlier profiles, failures and crashes have left in the hardware.  *)
PinsAreAdjusted ==
  pc \in {"create", "commands", "populate"} /\ ~sendErr /\ comps # None =>
    \A pin \in Pins \ RefusingPins : Matching(pin) # {} => phaseAdjust[pin] = Wanted(pin)

(* A pin is touched only if the profile names a connector of it on its own *)
(* card, although the cards of a node have pins with the same labels.      *)
Labels(card) ==
  {link.pin : link \in {l \in ExternalInputs : l.connector = card.input}
                \cup {l \in ExternalOutputs :
                        \E i \in DOMAIN card.outputs : card.outputs[i] = l.connector}
                \cup (IF card.gnssInput THEN {GnssLink} ELSE {})}

OtherPinsAreLeft ==
  [][\A pin \in Pins : phaseAdjust'[pin] # phaseAdjust[pin] =>
       \E i \in DOMAIN profile.delays :
         /\ clockIdOf[profile.delays[i].id] = pin.clockId
         /\ pin.label \in Labels(profile.delays[i])]_vars

(* The DPLL monitor of a configured interface watches its card or, when    *)
(* the clock ID could not be read, none.  One that watches its card takes  *)
(* a pin for its phase offset by labels that are all of its own card's     *)
(* filter: never by those of another card, although their keys are in one  *)
(* map and the clock ID is read again for each of them.                    *)
DpllIsOfItsCard ==
  \A n \in DOMAIN dplls :
    LET d == dplls[n] IN
    d.iface \in profile.pins =>
      /\ d.clockId \in {clockIdOf[d.iface], NoClock}
      /\ d.clockId # NoClock =>
           \A p \in DOMAIN d.filter :
             /\ d.iface \in DOMAIN profile.phaseOffsetPins
             /\ p \in DOMAIN profile.phaseOffsetPins[d.iface]
             /\ d.filter[p] = profile.phaseOffsetPins[d.iface][p]

(* The published hardware status is never replaced by one that was read    *)
(* earlier, although publishers overlap: each gets the resource before it  *)
(* reads the status, and gives up when another one was faster.             *)
StatusNeverOlder == [][resource'.of >= resource.of]_vars

-----------------------------------------------------------------------------
(* Statements the code does not satisfy.                                   *)

(* The status that is published in the end is that of the node.            *)
StatusIsPublished ==
  <>[](resource.hwconfig = hwconfigs \/ pc = "panic")

(* A DPLL monitor does not watch the card of another interface.            *)
EachDpllHasItsCard ==
  \A n \in DOMAIN dplls : dplls[n].clockId \in {clockIdOf[dplls[n].iface], NoClock}

(* The filter of a DPLL is there or missing: a clock ID that is read for   *)
(* one property and not for the other leaves a part of it, by which more   *)
(* pins match.                                                             *)
FiltersAreWhole ==
  \A n \in DOMAIN dplls :
    dplls[n].clockId # NoClock /\ dplls[n].filter # <<>> =>
      dplls[n].filter = profile.phaseOffsetPins[dplls[n].iface]

(* A profile with a mistake in its delays does not stop the daemon.        *)
NoPanic == pc # "panic"

(* A pin that the applied profile has no compensation for has none.        *)
OldAdjustmentsAreRemoved ==
  pc = "populate" /\ ~sendErr /\ comps # None =>
    \A pin \in Pins : Matching(pin) = {} => phaseAdjust[pin] = 0

(* A report of a command is in the status once.                            *)
ReportsAreCurrent ==
  \A i \in DOMAIN hwplugins : hwplugins[i] = updates
=============================================================================
