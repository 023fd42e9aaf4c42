------------------------ MODULE HardwarePluginProofs ------------------------
(***************************************************************************)
(* Proofs about HardwarePlugin, for any profiles, cards and publishers:    *)
(* the published status is never replaced by an older one, the DPLL        *)
(* monitor of a configured interface is of its card, and a pin gets the    *)
(* delay of its own connector while the others are left alone.             *)
(***************************************************************************)
EXTENDS HardwarePlugin, WellFoundedInduction, TLAPS

(* The hardware status, its copies and the publishers.                     *)
Texts == {c.reference : c \in Profiles} \cup {None}
Lists == Seq(Nat \cup Texts)
Devices == [hwconfig : Lists \cup {None}, of : Nat]

StatusType ==
  /\ pc # "idle" => profile \in Profiles
  /\ hwplugins \in Lists
  /\ reference \in Texts
  /\ hwconfigs \in Lists
  /\ toAdd \in Lists
  /\ version \in Nat
  /\ updates \in Nat
  /\ resource \in Devices
  /\ publisher \in [Publishers -> [pc : {"free", "get", "read", "update"},
                                   newest : BOOLEAN, copy : Devices \cup {None}]]

(* What a publisher with the newest resource is about to write was read    *)
(* after what is in the resource.                                          *)
Copies ==
  /\ resource.of <= version
  /\ \A p \in Publishers :
       publisher[p].pc = "update" =>
         /\ publisher[p].copy \in Devices
         /\ publisher[p].copy.of <= version
         /\ publisher[p].newest => resource.of <= publisher[p].copy.of

PublishInv == StatusType /\ Copies

-----------------------------------------------------------------------------
LEMMA FreeType ==
  Free \in [pc : {"free", "get", "read", "update"}, newest : BOOLEAN,
            copy : Devices \cup {None}]
BY DEF Free

(* A step that leaves the publishers and the resource alone.               *)
LEMMA CopiesStay ==
  ASSUME PublishInv, StatusType', UNCHANGED <<publisher, resource>>,
         version' \in {version, version + 1}
  PROVE  PublishInv' /\ resource'.of >= resource.of
BY DEF PublishInv, Copies, StatusType, Devices

(* The daemon writes the list of the status only.                          *)
LEMMA DaemonPublishes ==
  ASSUME PublishInv, Daemon
  PROVE  PublishInv' /\ resource'.of >= resource.of
<1> USE DEF PublishInv
<1> SUFFICES StatusType' /\ UNCHANGED <<publisher, resource>>
             /\ version' \in {version, version + 1}
  BY CopiesStay
<1>1. ASSUME NEW c \in Profiles, ApplyNodePTPProfiles(c)
      PROVE  StatusType' /\ UNCHANGED <<publisher, resource>>
             /\ version' \in {version, version + 1}
  BY <1>1 DEF ApplyNodePTPProfiles, StatusType, Lists
<1>2. CASE OnPTPConfigChange
  <2>1. reference' \in Texts
    BY <1>2 DEF OnPTPConfigChange, OnPTPConfigChangeGeneric, StatusType, Texts
  <2> QED BY <1>2, <2>1 DEF OnPTPConfigChange, StatusType, publish, bounds
<1>3. CASE AfterRunPTPCommand
  <2>1. hwplugins' \in Lists
    <3>1. hwplugins' = hwplugins \/ hwplugins' = Append(hwplugins, updates)
      BY <1>3 DEF AfterRunPTPCommand
    <3>2. hwplugins \in Seq(Nat \cup Texts) /\ updates \in Nat \cup Texts
      BY DEF StatusType, Lists
    <3>3. Append(hwplugins, updates) \in Seq(Nat \cup Texts)
      BY <3>2
    <3> QED BY <3>1, <3>2, <3>3 DEF Lists
  <2>2. toAdd' = Append(hwplugins', reference)
    BY <1>3 DEF AfterRunPTPCommand
  <2>4. toAdd' \in Lists
    BY <2>1, <2>2 DEF StatusType, Lists
  <2> QED BY <1>3, <2>1, <2>4 DEF AfterRunPTPCommand, StatusType, publish, bounds
<1>4. CASE PopulateHwConfig
  <2>1. hwconfigs' \in Lists /\ toAdd' \in Lists
    BY <1>4 DEF PopulateHwConfig, StatusType, Lists
  <2> QED BY <1>4, <2>1 DEF PopulateHwConfig, StatusType, apply, publish, bounds
<1>5. CASE SendDelayCompensation \/ PinPhaseAdjust \/ NilCompensations \/ SentAll
           \/ AddSettings \/ CreateDplls \/ Populated
  <2>1. UNCHANGED <<status, updates, publisher, resource>>
    BY <1>5 DEF SendDelayCompensation, PinPhaseAdjust, NilCompensations, SentAll,
         AddSettings, CreateDplls, Populated, publish, bounds
  <2>2. (pc # "idle" => profile \in Profiles)'
    BY <1>5 DEF SendDelayCompensation, PinPhaseAdjust, NilCompensations, SentAll,
         AddSettings, CreateDplls, Populated, Return, StatusType
  <2> QED BY <2>1, <2>2 DEF status, StatusType
<1> QED
  BY <1>1, <1>2, <1>3, <1>4, <1>5 DEF Daemon

(* The main program starts a publisher.                                    *)
LEMMA MainPublishes ==
  ASSUME PublishInv, Main
  PROVE  PublishInv' /\ resource'.of >= resource.of
<1> USE DEF PublishInv
<1>1. UNCHANGED <<apply, status, updates, resource>>
  BY DEF Main, Tick, ResetRefresh, SameConfig, bounds
<1>2. CASE UNCHANGED publisher
  BY <1>1, <1>2, CopiesStay DEF apply, status, StatusType
<1>3. ASSUME NEW p \in Publishers,
             publisher' = [publisher EXCEPT ![p] = [Free EXCEPT !.pc = "get"]]
      PROVE  PublishInv' /\ resource'.of >= resource.of
  <2>1. StatusType'
    BY <1>1, <1>3, FreeType DEF apply, status, StatusType
  <2>2. \A q \in Publishers : q # p => publisher'[q] = publisher[q]
    BY <1>3 DEF StatusType
  <2>3. publisher'[p].pc = "get"
    BY <1>3 DEF StatusType, Free
  <2> QED BY <1>1, <2>1, <2>2, <2>3 DEF apply, status, StatusType, Copies, Devices
<1> QED BY <1>2, <1>3 DEF Main, Tick, ResetRefresh, SameConfig

(* The steps of a publisher.                                               *)
LEMMA PublisherPublishes ==
  ASSUME PublishInv, NEW p \in Publishers, Publisher(p)
  PROVE  PublishInv' /\ resource'.of >= resource.of
<1> USE DEF PublishInv
<1>1. UNCHANGED <<apply, status, updates>>
  BY DEF Publisher, GetResource, PopulateNodePTPDevices, UpdateStatus, bounds
<1>2. CASE UNCHANGED resource
           /\ \E r \in [pc : {"free", "get", "read", "update"}, newest : BOOLEAN,
                        copy : Devices \cup {None}] :
                /\ publisher' = [publisher EXCEPT ![p] = r]
                /\ r.pc = "update" => r.copy \in Devices /\ r.copy.of = version
  <2>1. StatusType'
    BY <1>1, <1>2 DEF apply, status, StatusType
  <2>2. \A q \in Publishers : q # p => publisher'[q] = publisher[q]
    BY <1>2 DEF StatusType
  <2>3. publisher'[p].pc = "update" =>
          publisher'[p].copy \in Devices /\ publisher'[p].copy.of = version
    BY <1>2 DEF StatusType
  <2> QED BY <1>1, <1>2, <2>1, <2>2, <2>3 DEF apply, status, StatusType, Copies, Devices
<1>3. CASE GetResource(p)
  <2>1. CASE publisher' = [publisher EXCEPT ![p] = Free]
    BY <1>2, <1>3, <2>1, FreeType DEF GetResource, Free
  <2>2. CASE publisher' = [publisher EXCEPT ![p].pc = "read", ![p].newest = TRUE]
    <3>1. PICK r : r = [publisher[p] EXCEPT !.pc = "read", !.newest = TRUE]
      OBVIOUS
    <3>2. r \in [pc : {"free", "get", "read", "update"}, newest : BOOLEAN,
                 copy : Devices \cup {None}] /\ r.pc = "read"
      BY <3>1 DEF StatusType
    <3>3. publisher' = [publisher EXCEPT ![p] = r]
      BY <2>2, <3>1 DEF StatusType
    <3> QED BY <1>2, <1>3, <3>2, <3>3 DEF GetResource
  <2> QED BY <1>3, <2>1, <2>2 DEF GetResource
<1>4. CASE PopulateNodePTPDevices(p)
  <2>1. PICK list \in {hwconfigs, None} :
          publisher' = [publisher EXCEPT ![p].pc = "update",
                                         ![p].copy = [hwconfig |-> list, of |-> version]]
    BY <1>4 DEF PopulateNodePTPDevices
  <2>2. PICK r : r = [publisher[p] EXCEPT !.pc = "update",
                                          !.copy = [hwconfig |-> list, of |-> version]]
    OBVIOUS
  <2>3. [hwconfig |-> list, of |-> version] \in Devices
    BY DEF StatusType, Devices
  <2>4. /\ r \in [pc : {"free", "get", "read", "update"}, newest : BOOLEAN,
                  copy : Devices \cup {None}]
        /\ r.copy = [hwconfig |-> list, of |-> version]
    BY <2>2, <2>3 DEF StatusType
  <2>5. publisher' = [publisher EXCEPT ![p] = r]
    BY <2>1, <2>2 DEF StatusType
  <2>6. r.copy \in Devices /\ r.copy.of = version
    BY <2>3, <2>4
  <2>7. UNCHANGED resource
    BY <1>4 DEF PopulateNodePTPDevices
  <2> QED BY <1>2, <2>4, <2>5, <2>6, <2>7
<1>5. CASE UpdateStatus(p)
  <2>1. CASE publisher' = [publisher EXCEPT ![p] = Free] /\ UNCHANGED resource
    BY <1>2, <2>1, FreeType DEF Free
  <2>2. CASE publisher[p].newest /\ Replace(p)
    <3>1. /\ publisher[p].copy \in Devices
          /\ publisher[p].copy.of <= version
          /\ resource.of <= publisher[p].copy.of
      BY <1>5, <2>2 DEF UpdateStatus, Copies
    <3>2. resource' = publisher[p].copy
      BY <2>2 DEF Replace
    <3>3. ASSUME NEW q \in Publishers
          PROVE  /\ publisher'[q] \in [pc : {"free", "get", "read", "update"},
                                       newest : BOOLEAN, copy : Devices \cup {None}]
                 /\ ~ publisher'[q].newest
                 /\ publisher'[q].pc = "update" =>
                      publisher[q].pc = "update" /\ publisher'[q].copy = publisher[q].copy
      BY <2>2, FreeType DEF Replace, StatusType, Free
    <3>4. StatusType'
      <4>1. publisher' = [q \in Publishers |-> publisher'[q]]
        BY <2>2 DEF Replace
      <4>2. publisher' \in [Publishers -> [pc : {"free", "get", "read", "update"},
                                           newest : BOOLEAN, copy : Devices \cup {None}]]
        BY <3>3, <4>1
      <4> QED BY <1>1, <3>1, <3>2, <4>2 DEF apply, status, StatusType
    <3> QED BY <1>1, <3>1, <3>2, <3>3, <3>4 DEF apply, status, StatusType, Copies, Devices
  <2> QED BY <1>5, <2>1, <2>2 DEF UpdateStatus
<1> QED BY <1>3, <1>4, <1>5 DEF Publisher

LEMMA PublishInit ==
  ASSUME Init
  PROVE  PublishInv
<1>1. /\ pc = "idle"
      /\ hwplugins \in Lists
      /\ reference \in Texts
      /\ hwconfigs \in Lists
      /\ toAdd \in Lists
      /\ version = 0 /\ version \in Nat
      /\ updates \in Nat
  BY DEF Init, Texts, Lists
<1>2. resource \in Devices /\ resource.of = 0
  BY DEF Init, Devices, Lists
<1>3. publisher = [p \in Publishers |-> Free]
  BY DEF Init
<1>4. Free.pc = "free"
  BY DEF Free
<1> QED BY <1>1, <1>2, <1>3, <1>4, FreeType DEF PublishInv, StatusType, Copies

LEMMA RestartPublishes ==
  ASSUME PublishInv, Restart
  PROVE  PublishInv' /\ resource'.of >= resource.of
<1>1. /\ pc' = "idle"
      /\ hwplugins' \in Lists
      /\ reference' \in Texts
      /\ hwconfigs' \in Lists
      /\ toAdd' \in Lists
      /\ version' = version + 1
      /\ UNCHANGED <<updates, resource>>
  BY DEF Restart, Return, Texts, Lists
<1>2. publisher' = [p \in Publishers |-> Free]
  BY DEF Restart
<1>3. Free.pc = "free"
  BY DEF Free
<1> QED BY <1>1, <1>2, <1>3, FreeType DEF PublishInv, StatusType, Copies, Devices

LEMMA PublishNext ==
  ASSUME PublishInv, [Next]_vars
  PROVE  PublishInv' /\ resource'.of >= resource.of
<1>1. CASE UNCHANGED vars
  BY <1>1, CopiesStay DEF vars, PublishInv, StatusType
<1> QED
  BY <1>1, DaemonPublishes, MainPublishes, PublisherPublishes, RestartPublishes DEF Next

(* The status in the NodePtpDevice resource is never replaced by one that  *)
(* was read earlier, however many publishers overlap, and across restarts  *)
(* of the daemon.                                                          *)
THEOREM NeverOlder == Spec => StatusNeverOlder
<1>1. Init => PublishInv
  BY PublishInit
<1>2. PublishInv /\ [Next]_vars => PublishInv'
  BY PublishNext
<1>3. PublishInv /\ [Next]_vars => [resource'.of >= resource.of]_vars
  BY PublishNext
<1> QED BY <1>1, <1>2, <1>3, PTL DEF Spec, StatusNeverOlder

-----------------------------------------------------------------------------
(* Until the monitors are created, the clock IDs in the settings are those *)
(* of the cards, and so is each property of a filter with such an ID.      *)
Configured == {"delays", "send", "settings", "create"}

Applied ==
  /\ pc # "idle" => profile \in Profiles
  /\ pc # "commands" => dplls = <<>>

ClockIds ==
  pc \in Configured =>
    /\ DOMAIN settings = {"clockId", "dpll", "filter"}
    /\ DOMAIN settings.clockId = profile.pins
    /\ \A i \in profile.pins : settings.clockId[i] \in {clockIdOf[i], NoClock}

Filters ==
  pc = "create" =>
    \A e \in settings.filter :
      e.id # NoClock =>
        \E i \in profile.pins \cap DOMAIN profile.phaseOffsetPins :
          /\ clockIdOf[i] = e.id
          /\ e.property \in DOMAIN profile.phaseOffsetPins[i]
          /\ e.label = profile.phaseOffsetPins[i][e.property]

CardInv == Applied /\ ClockIds /\ Filters /\ DpllIsOfItsCard

LEMMA CardInit ==
  ASSUME Init
  PROVE  CardInv
BY DEF Init, CardInv, Applied, ClockIds, Filters, DpllIsOfItsCard, Configured

(* A step that keeps profile, settings and monitors and adds no filter.    *)
LEMMA CardsStay ==
  ASSUME CardInv, UNCHANGED <<profile, settings, dplls>>,
         pc' = pc \/ (pc \in Configured /\ pc' \in Configured \ {"create"})
                  \/ pc' = "panic",
         pc # "idle" \/ pc' = "idle",
         pc = "commands" <=> pc' = "commands"
  PROVE  CardInv'
BY DEF CardInv, Applied, ClockIds, Filters, DpllIsOfItsCard, Configured

(* The function returns, or the daemon is started again.                   *)
LEMMA ReturnedCards ==
  ASSUME Return
  PROVE  CardInv'
BY DEF Return, CardInv, Applied, ClockIds, Filters, DpllIsOfItsCard, Configured

LEMMA ConfiguredCards ==
  ASSUME CardInv, OnPTPConfigChange
  PROVE  CardInv'
<1>1. PICK readable \in SUBSET profile.pins :
        settings' = [clockId |-> [i \in profile.pins |->
                                    IF i \in readable THEN clockIdOf[i] ELSE NoClock],
                     dpll |-> profile.settings,
                     filter |-> {}]
  BY DEF OnPTPConfigChange
<1>2. /\ pc = "plugin" /\ pc' = "delays"
      /\ UNCHANGED <<profile, dplls>>
  BY DEF OnPTPConfigChange
<1>3. Applied'
  BY <1>2 DEF CardInv, Applied
<1>4. ClockIds'
  BY <1>1, <1>2 DEF ClockIds
<1>5. Filters' /\ DpllIsOfItsCard'
  BY <1>2 DEF CardInv, Applied, Filters, DpllIsOfItsCard
<1> QED BY <1>3, <1>4, <1>5 DEF CardInv

LEMMA FilteredCards ==
  ASSUME CardInv, AddSettings
  PROVE  CardInv'
<1>1. /\ pc = "settings" /\ pc' = "create"
      /\ UNCHANGED <<profile, dplls>>
  BY DEF AddSettings
<1> DEFINE pins == profile.phaseOffsetPins
           known == DOMAIN pins \cap profile.pins
           keys(done) == UNION {{i} \X DOMAIN pins[i] : i \in done}
           entry(k, readable) ==
             [id |-> IF k \in readable THEN clockIdOf[k[1]] ELSE NoClock,
              property |-> k[2],
              label |-> pins[k[1]][k[2]]]
<1> PICK done \in (IF DOMAIN pins = known THEN {known} ELSE SUBSET known) :
           \E r \in SUBSET keys(done) :
             settings' = [settings EXCEPT !.dpll = Defaults(@, profile.pluginSettings),
                                          !.filter = {entry(k, r) : k \in keys(done)}]
  BY DEF AddSettings
<1>2. PICK readable \in SUBSET keys(done) :
        settings' = [settings EXCEPT !.dpll = Defaults(@, profile.pluginSettings),
                                     !.filter = {entry(k, readable) : k \in keys(done)}]
  OBVIOUS
<1>3. done \subseteq known
  OBVIOUS
<1>4. /\ DOMAIN settings' = {"clockId", "dpll", "filter"}
      /\ settings'.clockId = settings.clockId
      /\ settings'.filter = {entry(k, readable) : k \in keys(done)}
  BY <1>1, <1>2 DEF CardInv, ClockIds, Configured
<1>5. Applied' /\ DpllIsOfItsCard'
  BY <1>1 DEF CardInv, Applied, DpllIsOfItsCard
<1>6. ClockIds'
  BY <1>1, <1>4 DEF CardInv, ClockIds, Configured
<1>7. Filters'
  <2> SUFFICES ASSUME NEW k \in keys(done), entry(k, readable).id # NoClock
               PROVE  \E i \in known :
                        /\ clockIdOf[i] = entry(k, readable).id
                        /\ entry(k, readable).property \in DOMAIN pins[i]
                        /\ entry(k, readable).label = pins[i][entry(k, readable).property]
    BY <1>1, <1>4 DEF Filters
  <2>1. PICK i \in done : k \in {i} \X DOMAIN pins[i]
    OBVIOUS
  <2>2. k[1] = i /\ k[2] \in DOMAIN pins[i]
    BY <2>1
  <2>3. entry(k, readable).id = clockIdOf[i]
    BY <2>2
  <2> QED BY <1>3, <2>2, <2>3
<1> QED BY <1>5, <1>6, <1>7 DEF CardInv

(* The clock ID of an interface in "pins" is its own, not one left over.   *)
LEMMA OwnClockId ==
  ASSUME profile \in Profiles, DOMAIN settings.clockId = profile.pins,
         NEW n \in DOMAIN profile.dplls, profile.dplls[n] \in profile.pins
  PROVE  ClockIdOfDpll(n) = settings.clockId[profile.dplls[n]]
<1> DEFINE before == {i \in 1 .. n : profile.dplls[i] \in DOMAIN settings.clockId}
<1>1. n \in Nat \ {0}
  <2>1. profile.dplls \in Seq(Ifaces)
    BY HardwarePluginAssumption DEF Profile
  <2> QED BY <2>1
<1>2. n \in before /\ \A j \in before : j <= n
  BY <1>1
<1>3. (CHOOSE i \in before : \A j \in before : j <= i) = n
  <2>1. \E i \in before : \A j \in before : j <= i
    BY <1>2
  <2>2. PICK i \in before : /\ i = (CHOOSE k \in before : \A j \in before : j <= k)
                            /\ \A j \in before : j <= i
    BY <2>1
  <2>3. i = n
    BY <1>1, <1>2, <2>2
  <2> QED BY <2>2, <2>3
<1>4. before # {}
  BY <1>2
<1> QED BY <1>3, <1>4 DEF ClockIdOfDpll

LEMMA CreatedCards ==
  ASSUME CardInv, CreateDplls
  PROVE  CardInv'
<1>1. CASE Return
  BY <1>1, ReturnedCards
<1>2. ASSUME NEW filter,
             DOMAIN filter = DOMAIN profile.dplls,
             \A n \in DOMAIN filter : filter[n] \in FiltersOf(ClockIdOfDpll(n)),
             dplls' = [n \in DOMAIN filter |-> NewDpll(n, filter[n])],
             pc' = "commands",
             UNCHANGED profile
      PROVE  CardInv'
  <2>1. pc = "create" /\ profile \in Profiles
    BY DEF CreateDplls, CardInv, Applied
  <2>2. Applied' /\ ClockIds' /\ Filters'
    BY <1>2, <2>1 DEF CardInv, Applied, ClockIds, Filters, Configured
  <2>3. /\ DOMAIN settings.clockId = profile.pins
        /\ \A i \in profile.pins : settings.clockId[i] \in {clockIdOf[i], NoClock}
    BY <2>1 DEF CardInv, ClockIds, Configured
  <2>4. ASSUME NEW n \in DOMAIN profile.dplls, profile.dplls[n] \in profile.pins
        PROVE  LET d == NewDpll(n, filter[n]) IN
               /\ d.clockId \in {clockIdOf[d.iface], NoClock}
               /\ d.clockId # NoClock =>
                    \A p \in DOMAIN d.filter :
                      /\ d.iface \in DOMAIN profile.phaseOffsetPins
                      /\ p \in DOMAIN profile.phaseOffsetPins[d.iface]
                      /\ d.filter[p] = profile.phaseOffsetPins[d.iface][p]
    <3> DEFINE iface == profile.dplls[n]
               id == ClockIdOfDpll(n)
    <3>1. id \in {clockIdOf[iface], NoClock}
      BY <2>1, <2>3, <2>4, OwnClockId
    <3>2. ASSUME id # NoClock, NEW p \in DOMAIN filter[n]
          PROVE  /\ iface \in DOMAIN profile.phaseOffsetPins
                 /\ p \in DOMAIN profile.phaseOffsetPins[iface]
                 /\ filter[n][p] = profile.phaseOffsetPins[iface][p]
      <4>1. PICK e \in settings.filter : e.id = id /\ e.property = p /\ e.label = filter[n][p]
        BY <1>2, <3>2 DEF FiltersOf, EntriesOf
      <4>2. PICK i \in profile.pins \cap DOMAIN profile.phaseOffsetPins :
              /\ clockIdOf[i] = e.id
              /\ e.property \in DOMAIN profile.phaseOffsetPins[i]
              /\ e.label = profile.phaseOffsetPins[i][e.property]
        BY <2>1, <3>2, <4>1 DEF CardInv, Filters
      <4>3. i \in Ifaces /\ iface \in Ifaces
        BY <2>1, <2>4, HardwarePluginAssumption DEF Profile
      <4>4. i = iface
        BY <3>1, <3>2, <4>1, <4>2, <4>3, HardwarePluginAssumption
      <4> QED BY <4>1, <4>2, <4>4
    <3>3. /\ NewDpll(n, filter[n]).clockId = id
          /\ NewDpll(n, filter[n]).iface = iface
          /\ NewDpll(n, filter[n]).filter = filter[n]
      BY DEF NewDpll
    <3> HIDE DEF id, iface
    <3> QED BY <3>1, <3>2, <3>3
  <2>5. DpllIsOfItsCard'
    <3>1. /\ DOMAIN dplls' = DOMAIN profile.dplls
          /\ \A n \in DOMAIN profile.dplls : dplls'[n] = NewDpll(n, filter[n])
          /\ profile' = profile
      BY <1>2
    <3>2. \A n \in DOMAIN profile.dplls : NewDpll(n, filter[n]).iface = profile.dplls[n]
      BY DEF NewDpll
    <3> QED BY <2>4, <3>1, <3>2 DEF DpllIsOfItsCard
  <2> QED BY <2>2, <2>5 DEF CardInv
<1> QED BY <1>1, <1>2 DEF CreateDplls

LEMMA CardNext ==
  ASSUME CardInv, [Next]_vars
  PROVE  CardInv'
<1>1. ASSUME NEW c \in Profiles, ApplyNodePTPProfiles(c)
      PROVE  CardInv'
  BY <1>1 DEF ApplyNodePTPProfiles, CardInv, Applied, ClockIds, Filters, DpllIsOfItsCard,
       Configured
<1>2. CASE SendDelayCompensation
  BY <1>2, CardsStay DEF SendDelayCompensation, Configured
<1>3. CASE PinPhaseAdjust
  BY <1>3, CardsStay DEF PinPhaseAdjust, Configured
<1>4. CASE NilCompensations
  BY <1>4, CardsStay DEF NilCompensations, Configured
<1>5. CASE SentAll
  BY <1>5, CardsStay DEF SentAll, Configured
<1>6. CASE AfterRunPTPCommand
  BY <1>6 DEF AfterRunPTPCommand, CardInv, Applied, ClockIds, Filters, DpllIsOfItsCard,
       Configured
<1>7. CASE Populated \/ Restart
  BY <1>7, ReturnedCards DEF Populated, Restart
<1>8. CASE UNCHANGED apply
  BY <1>8, CardsStay DEF apply
<1>9. PopulateHwConfig \/ Main \/ (\E p \in Publishers : Publisher(p)) \/ UNCHANGED vars
        => UNCHANGED apply
  BY DEF PopulateHwConfig, Main, Tick, ResetRefresh, SameConfig, Publisher, GetResource,
       PopulateNodePTPDevices, UpdateStatus, vars, apply
<1> QED
  BY <1>1, <1>2, <1>3, <1>4, <1>5, <1>6, <1>7, <1>8, <1>9, ConfiguredCards,
     FilteredCards, CreatedCards DEF Next, Daemon

(* The DPLL monitor of a configured interface watches the card of that     *)
(* interface, or none, and what is in its filter is of that card: for any  *)
(* number of cards and properties, and whichever reads of a clock ID fail. *)
THEOREM MonitorsAreOfTheirCards == Spec => []DpllIsOfItsCard
<1>1. Init => CardInv
  BY CardInit
<1>2. CardInv /\ [Next]_vars => CardInv'
  BY CardNext
<1>3. CardInv => DpllIsOfItsCard
  BY DEF CardInv
<1> QED BY <1>1, <1>2, <1>3, PTL DEF Spec

-----------------------------------------------------------------------------
(* The connectors of a profile: there is a last one of any of them.        *)

LEMMA MinExists ==
  ASSUME NEW T \in SUBSET Nat, T # {}
  PROVE  \E m \in T : \A x \in T : m <= x
<1> DEFINE R == {ss \in Nat \X Nat : ss[1] < ss[2]}
<1>1. IsWellFoundedOn(R, Nat)
  BY NatLessThanWellFounded, Zenon DEF OpToRel
<1>2. \E m \in T : \A x \in T : ~(<<x, m>> \in R)
  BY <1>1, WFMin, Zenon
<1>3. \A x, m \in Nat : <<x, m>> \notin R => m <= x
  OBVIOUS
<1> QED
  BY <1>2, <1>3

LEMMA MaxExists ==
  ASSUME NEW n \in Nat, NEW S \in SUBSET (0 .. n), S # {}
  PROVE  \E m \in S : \A x \in S : x <= m
<1> DEFINE T == {n - x : x \in S}
<1>1. T \in SUBSET Nat /\ T # {}
  <2>1. \A x \in S : n - x \in Nat
    OBVIOUS
  <2> QED
    BY <2>1
<1>2. PICK m \in T : \A y \in T : m <= y
  BY <1>1, MinExists
<1>3. PICK x \in S : m = n - x
  BY <1>2
<1>4. \A y \in S : y <= x
  BY <1>2, <1>3
<1> QED
  BY <1>4

LEMMA CardType ==
  ASSUME profile \in Profiles
  PROVE  /\ profile.delays \in Seq(Delays)
         /\ \A i \in DOMAIN profile.delays :
              /\ i \in 1 .. Len(profile.delays)
              /\ profile.delays[i] \in Delays
              /\ profile.delays[i].outputs \in Seq(STRING)
<1>1. profile.delays \in Seq(Delays)
  BY HardwarePluginAssumption DEF Profile
<1>2. \A i \in DOMAIN profile.delays :
        i \in 1 .. Len(profile.delays) /\ profile.delays[i] \in Delays
  BY <1>1
<1>3. \A d \in Delays : d.outputs \in Seq(STRING)
  BY DEF Delays
<1> QED
  BY <1>1, <1>2, <1>3

LEMMA ConnectorType ==
  ASSUME profile \in Profiles, NEW c \in Connectors
  PROVE  /\ c = <<c[1], c[2]>>
         /\ c[1] \in DOMAIN profile.delays /\ c[1] \in Nat
         /\ c[2] \in Slots(profile.delays[c[1]])
         /\ c[2] \in 1 .. 2 + Len(profile.delays[c[1]].outputs)
<1>1. PICK i \in DOMAIN profile.delays : c \in {i} \X Slots(profile.delays[i])
  BY DEF Connectors
<1>2. c = <<c[1], c[2]>> /\ c[1] = i /\ c[2] \in Slots(profile.delays[i])
  BY <1>1
<1>3. i \in Nat /\ profile.delays[i].outputs \in Seq(STRING)
  BY CardType
<1>4. Slots(profile.delays[i]) \subseteq 1 .. 2 + Len(profile.delays[i].outputs)
  BY <1>3 DEF Slots
<1> QED
  BY <1>2, <1>3, <1>4

LEMMA LastExists ==
  ASSUME profile \in Profiles, NEW conns \in SUBSET Connectors, conns # {}
  PROVE  Last(conns) \in conns /\ \A c \in conns : ~Before(Last(conns), c)
<1> DEFINE cards == {c[1] : c \in conns}
<1>1. PICK i \in cards : \A j \in cards : j <= i
  <2>1. cards \in SUBSET (0 .. Len(profile.delays)) /\ cards # {}
    BY ConnectorType, CardType
  <2>2. Len(profile.delays) \in Nat
    BY CardType
  <2> QED
    BY <2>1, <2>2, MaxExists
<1> DEFINE slots == {c[2] : c \in {d \in conns : d[1] = i}}
<1>2. PICK s \in slots : \A t \in slots : t <= s
  <2>1. i \in DOMAIN profile.delays
    BY ConnectorType
  <2>2. 2 + Len(profile.delays[i].outputs) \in Nat
    BY <2>1, CardType
  <2>3. slots # {}
    BY <1>1
  <2>4. slots \in SUBSET (0 .. 2 + Len(profile.delays[i].outputs))
    BY <2>2, ConnectorType
  <2> QED
    BY <2>2, <2>3, <2>4, MaxExists
<1>3. PICK a \in conns : a[1] = i /\ a[2] = s
  BY <1>2
<1>4. \A c \in conns : ~Before(a, c)
  <2> SUFFICES ASSUME NEW c \in conns PROVE ~Before(a, c)
    OBVIOUS
  <2>1. c[1] <= i /\ (c[1] = i => c[2] <= s)
    BY <1>1, <1>2
  <2>2. c[1] \in Nat /\ i \in Nat
    BY <1>3, ConnectorType
  <2>3. c[1] = i => c[2] \in Int /\ s \in Int
    BY <1>3, ConnectorType, CardType
  <2> QED
    BY <1>3, <2>1, <2>2, <2>3 DEF Before
<1> QED
  BY <1>4 DEF Last

-----------------------------------------------------------------------------
(* The compensations come from the profile, and those of the pins that     *)
(* have been looked at are in the hardware.                                *)

Compensated == {"send", "settings", "create", "commands", "populate"}

Hardware == DOMAIN phaseAdjust = Pins /\ todo \in Seq(Pins)

OfProfile ==
  pc \in Compensated /\ comps # None =>
    /\ DOMAIN comps = Connectors
    /\ \A c \in Connectors :
         /\ comps[c].clockId \in {clockIdOf[profile.delays[c[1]].id], NoClock}
         /\ comps[c].label \in Labels(profile.delays[c[1]])

Adjusted(pin) ==
  pin \notin RefusingPins /\ Matching(pin) # {} => phaseAdjust[pin] = Wanted(pin)

Sent ==
  /\ pc \in Compensated /\ ~sendErr /\ comps # None =>
       \A pin \in Pins : (\E i \in DOMAIN todo : todo[i] = pin) \/ Adjusted(pin)
  /\ pc \in Compensated \ {"send"} /\ ~sendErr => todo = <<>>
  /\ pc = "send" => ~sendErr

AdjustInv == CardInv /\ Hardware /\ OfProfile /\ Sent

LEMMA LinkFound ==
  ASSUME NEW links, NEW connector, HasLink(links, connector)
  PROVE  /\ FindInternalLink(links, connector) \in links
         /\ FindInternalLink(links, connector).connector = connector
BY DEF HasLink, FindInternalLink

(* findDelayCompensation takes clock IDs and labels from the profile.      *)
LEMMA FoundInProfile ==
  ASSUME profile \in Profiles, DOMAIN settings.clockId = profile.pins,
         \A i \in profile.pins : settings.clockId[i] \in {clockIdOf[i], NoClock},
         FindDelayCompensation # None
  PROVE  /\ DOMAIN FindDelayCompensation = Connectors
         /\ \A c \in Connectors :
              LET card == profile.delays[c[1]]
                  comp == FindDelayCompensation[c]
              IN comp.clockId \in {clockIdOf[card.id], NoClock} /\ comp.label \in Labels(card)
<1>1. /\ \A i \in DOMAIN profile.delays : ~CardFails(profile.delays[i])
      /\ FindDelayCompensation = [c \in Connectors |-> Comp(profile.delays[c[1]], c[2])]
  BY DEF FindDelayCompensation
<1>2. ASSUME NEW c \in Connectors
      PROVE  LET card == profile.delays[c[1]]
                 comp == FindDelayCompensation[c]
             IN comp.clockId \in {clockIdOf[card.id], NoClock} /\ comp.label \in Labels(card)
  <2> DEFINE card == profile.delays[c[1]]
             slot == c[2]
  <2>1. c[1] \in DOMAIN profile.delays /\ slot \in Slots(card)
    BY ConnectorType
  <2>2. ~CardFails(card)
    BY <1>1, <2>1
  <2>3. /\ FindDelayCompensation[c].clockId = settings.clockId[card.id]
        /\ FindDelayCompensation[c].label = LinkOf(card, slot).pin
    BY <1>1 DEF Comp
  <2>4. card.id \in profile.pins
    BY <2>1, <2>2 DEF CardFails
  <2>5. LinkOf(card, slot).pin \in Labels(card)
    <3>1. card.outputs \in Seq(STRING)
      BY <2>1, CardType
    <3> HIDE DEF card, slot
    <3>2. CASE slot = 1
      <4>1. card.input # None
        BY <2>1, <3>1, <3>2 DEF Slots
      <4>2. LinkOf(card, slot) \in {l \in ExternalInputs : l.connector = card.input}
        BY <2>2, <3>2, <4>1, LinkFound DEF CardFails, LinkOf
      <4> QED
        BY <4>2 DEF Labels
    <3>3. CASE slot = 2
      <4>1. card.gnssInput
        BY <2>1, <3>1, <3>3 DEF Slots
      <4>2. LinkOf(card, slot) = GnssLink
        BY <3>3 DEF LinkOf
      <4> QED
        BY <4>1, <4>2 DEF Labels
    <3>4. CASE slot \notin {1, 2}
      <4>1. PICK o \in DOMAIN card.outputs : slot = 2 + o
        BY <2>1, <3>4 DEF Slots
      <4>2. slot - 2 = o
        BY <3>1, <4>1
      <4>3. LinkOf(card, slot) = FindInternalLink(ExternalOutputs, card.outputs[o])
        BY <3>4, <4>2 DEF LinkOf
      <4>4. LinkOf(card, slot) \in {l \in ExternalOutputs :
                \E i \in DOMAIN card.outputs : card.outputs[i] = l.connector}
        BY <2>2, <4>1, <4>3, LinkFound DEF CardFails
      <4> QED
        BY <4>4 DEF Labels
    <3> QED
      BY <3>2, <3>3, <3>4
  <2> QED
    BY <2>3, <2>4, <2>5
<1> QED
  BY <1>1, <1>2

LEMMA AdjustInit == Init => AdjustInv
<1> SUFFICES ASSUME Init PROVE AdjustInv
  OBVIOUS
<1>1. CardInv
  BY CardInit
<1>2. Hardware /\ OfProfile /\ Sent
  BY DEF Init, Hardware, OfProfile, Sent, Compensated
<1> QED
  BY <1>1, <1>2 DEF AdjustInv

(* A step that leaves the compensations alone.                             *)
LEMMA AdjustStays ==
  ASSUME AdjustInv, UNCHANGED <<comps, todo, sendErr, phaseAdjust, profile>>,
         \/ pc' = pc
         \/ pc' \notin Compensated
         \/ pc \in Compensated /\ pc' \in Compensated \ {"send"} /\ (pc = "send" => todo = <<>>)
  PROVE  (Hardware /\ OfProfile /\ Sent)'
<1>1. Connectors' = Connectors
  BY DEF Connectors
<1>2. \A pin : Adjusted(pin)' <=> Adjusted(pin)
  BY DEF Adjusted, Matching, Wanted
<1>3. Hardware'
  BY DEF AdjustInv, Hardware
<1>4. OfProfile'
  BY <1>1 DEF AdjustInv, OfProfile, Compensated
<1>5. Sent'
  <2>1. /\ pc' \in Compensated => pc \in Compensated
        /\ pc' = "send" => pc = "send"
        /\ pc' \in Compensated \ {"send"} /\ ~sendErr' => todo' = <<>>
    BY DEF AdjustInv, Sent, Compensated
  <2> QED
    BY <1>2, <2>1 DEF AdjustInv, Sent
<1> QED
  BY <1>3, <1>4, <1>5

LEMMA SendAdjusts ==
  ASSUME AdjustInv, SendDelayCompensation
  PROVE  (Hardware /\ OfProfile /\ Sent)'
<1>1. pc = "delays" /\ comps' = FindDelayCompensation /\ phaseAdjust' = phaseAdjust /\ profile' = profile
  BY DEF SendDelayCompensation
<1>2. \/ todo' = BoardPins /\ sendErr' = FALSE /\ pc' = "send"
      \/ todo' = <<>> /\ sendErr' = TRUE /\ pc' = "settings"
  BY DEF SendDelayCompensation
<1>3. Hardware'
  <2>1. BoardPins \in Seq(Pins) /\ <<>> \in Seq(Pins)
    BY HardwarePluginAssumption
  <2>2. todo' \in Seq(Pins)
    BY <1>2, <2>1, Zenon
  <2> QED
    BY <1>1, <2>2 DEF AdjustInv, Hardware
<1>4. OfProfile'
  <2>1. /\ profile \in Profiles /\ DOMAIN settings.clockId = profile.pins
        /\ \A i \in profile.pins : settings.clockId[i] \in {clockIdOf[i], NoClock}
    BY <1>1 DEF AdjustInv, CardInv, Applied, ClockIds, Configured
  <2>2. Connectors' = Connectors
    BY <1>1 DEF Connectors
  <2> QED
    BY <1>1, <2>1, <2>2, FoundInProfile DEF OfProfile
<1>5. Sent'
  <2>1. \A pin \in Pins : \E i \in DOMAIN BoardPins : BoardPins[i] = pin
    BY DEF Pins
  <2> QED
    BY <1>2, <2>1 DEF Sent
<1> QED
  BY <1>3, <1>4, <1>5

(* A pin of the dump: it is not to be looked at again, and has what the    *)
(* last of its connectors wants unless sending ended.                      *)
LEMMA PinAdjusted ==
  ASSUME AdjustInv, PinPhaseAdjust
  PROVE  (Hardware /\ OfProfile /\ Sent)'
<1>1. /\ pc = "send" /\ todo # <<>> /\ comps # None
      /\ comps' = comps /\ profile' = profile
  BY DEF PinPhaseAdjust
<1>2. todo \in Seq(Pins) /\ DOMAIN phaseAdjust = Pins
  BY DEF AdjustInv, Hardware
<1> PICK pin \in Pins : pin = Head(todo)
  BY <1>1, <1>2
<1>3. PICK sent \in SUBSET CompsOf(pin) :
        /\ phaseAdjust' = IF sent = {} \/ pin \in RefusingPins THEN phaseAdjust
                          ELSE [phaseAdjust EXCEPT ![pin] = comps[Last(sent)].delayPs]
        /\ sendErr' = (sent # CompsOf(pin))
        /\ pc' = IF sent = CompsOf(pin) THEN "send" ELSE "settings"
        /\ todo' = IF sent = CompsOf(pin) THEN Tail(todo) ELSE <<>>
  BY DEF PinPhaseAdjust
<1>4. Hardware'
  BY <1>1, <1>2, <1>3 DEF Hardware
<1>5. OfProfile'
  <2>1. Connectors' = Connectors
    BY <1>1 DEF Connectors
  <2> QED
    BY <1>1, <2>1 DEF AdjustInv, OfProfile, Compensated
<1>6. CASE sent # CompsOf(pin)
  <2>1. sendErr' /\ pc' = "settings"
    BY <1>3, <1>6
  <2> QED
    BY <1>4, <1>5, <2>1 DEF Sent
<1>7. CASE sent = CompsOf(pin)
  <2>1. pc' = "send" /\ todo' = Tail(todo)
    BY <1>3, <1>7
  <2>2. \A q \in Pins : (\E i \in DOMAIN todo : todo[i] = q) \/ Adjusted(q)
    BY <1>1 DEF AdjustInv, Sent, Compensated
  <2>3. Adjusted(pin)'
    <3> SUFFICES ASSUME pin \notin RefusingPins, (Matching(pin) # {})'
                 PROVE  phaseAdjust'[pin] = Wanted(pin)'
      BY DEF Adjusted
    <3>1. CompsOf(pin) = Matching(pin) /\ Matching(pin)' = Matching(pin)
      BY <1>1 DEF CompsOf, Matching
    <3>2. phaseAdjust'[pin] = comps[Last(Matching(pin))].delayPs
      BY <1>2, <1>3, <1>7, <3>1
    <3>3. Wanted(pin)' = comps[Last(Matching(pin))].delayPs
      BY <1>1, <3>1 DEF Wanted
    <3> QED
      BY <3>2, <3>3
  <2>4. ASSUME NEW q \in Pins \ {pin}
        PROVE  (\E i \in DOMAIN todo' : todo'[i] = q) \/ Adjusted(q)'
    <3>1. phaseAdjust'[q] = phaseAdjust[q]
      BY <1>2, <1>3
    <3>2. Adjusted(q) => Adjusted(q)'
      BY <1>1, <3>1 DEF Adjusted, Matching, Wanted
    <3>3. ASSUME NEW i \in DOMAIN todo, todo[i] = q
          PROVE  \E j \in DOMAIN Tail(todo) : Tail(todo)[j] = q
      <4>1. i # 1
        BY <1>2, <3>3
      <4>2. i - 1 \in DOMAIN Tail(todo) /\ Tail(todo)[i - 1] = q
        BY <1>1, <1>2, <3>3, <4>1
      <4> QED
        BY <4>2
    <3> QED
      BY <2>1, <2>2, <3>2, <3>3
  <2>5. ~sendErr'
    BY <1>3, <1>7
  <2> QED
    BY <1>2, <1>4, <1>5, <2>1, <2>3, <2>4, <2>5 DEF Sent
<1> QED
  BY <1>4, <1>5, <1>6, <1>7

LEMMA AdjustNext == AdjustInv /\ [Next]_vars => AdjustInv'
<1> SUFFICES ASSUME AdjustInv, [Next]_vars PROVE AdjustInv'
  OBVIOUS
<1>1. CardInv'
  BY CardNext DEF AdjustInv
<1> SUFFICES (Hardware /\ OfProfile /\ Sent)'
  BY <1>1 DEF AdjustInv
<1>2. ASSUME Return, phaseAdjust' = phaseAdjust
      PROVE  (Hardware /\ OfProfile /\ Sent)'
  BY <1>2 DEF Return, AdjustInv, Hardware, OfProfile, Sent, Compensated
<1>3. ASSUME NEW c \in Profiles, ApplyNodePTPProfiles(c)
      PROVE  (Hardware /\ OfProfile /\ Sent)'
  BY <1>3 DEF ApplyNodePTPProfiles, AdjustInv, Hardware, OfProfile, Sent, Compensated
<1>4. CASE OnPTPConfigChange
  BY <1>4, AdjustStays DEF OnPTPConfigChange, Compensated
<1>5. CASE NilCompensations
  BY <1>5, AdjustStays DEF NilCompensations, Compensated
<1>6. CASE SentAll
  BY <1>6, AdjustStays DEF SentAll, Compensated
<1>7. CASE AddSettings
  BY <1>7, AdjustStays DEF AddSettings, Compensated
<1>8. CASE CreateDplls
  BY <1>2, <1>8, AdjustStays DEF CreateDplls, Compensated
<1>9. CASE AfterRunPTPCommand
  BY <1>9, AdjustStays DEF AfterRunPTPCommand, Compensated
<1>10. CASE Populated \/ Restart
  BY <1>2, <1>10 DEF Populated, Restart
<1>11. CASE UNCHANGED <<apply, phaseAdjust>>
  BY <1>11, AdjustStays DEF apply
<1>12. PopulateHwConfig \/ Main \/ (\E p \in Publishers : Publisher(p)) \/ UNCHANGED vars
         => UNCHANGED <<apply, phaseAdjust>>
  BY DEF PopulateHwConfig, Main, Tick, ResetRefresh, SameConfig, Publisher, GetResource,
       PopulateNodePTPDevices, UpdateStatus, vars, apply
<1> QED
  BY <1>3, <1>4, <1>5, <1>6, <1>7, <1>8, <1>9, <1>10, <1>11, <1>12, SendAdjusts, PinAdjusted
  DEF Next, Daemon

(* Wanted(pin) is of a connector of the pin, and none of its connectors    *)
(* comes later.                                                            *)
WantedByLast ==
  pc \in Compensated /\ comps # None =>
    \A pin \in Pins : Matching(pin) # {} =>
      \E c \in Matching(pin) :
        /\ Wanted(pin) = comps[c].delayPs
        /\ \A d \in Matching(pin) : ~Before(c, d)

(* When sendDelayCompensation has ended without an error, every pin has    *)
(* the adjustment of its last connector, of any number of cards, pins and  *)
(* connectors, and whatever was in the hardware before.                    *)
THEOREM PinsAdjusted == Spec => [](PinsAreAdjusted /\ WantedByLast)
<1>1. AdjustInv => PinsAreAdjusted
  <2> SUFFICES ASSUME AdjustInv, pc \in {"create", "commands", "populate"}, ~sendErr, comps # None,
                      NEW pin \in Pins \ RefusingPins, Matching(pin) # {}
               PROVE  phaseAdjust[pin] = Wanted(pin)
    BY DEF PinsAreAdjusted
  <2>1. todo = <<>> /\ ((\E i \in DOMAIN todo : todo[i] = pin) \/ Adjusted(pin))
    BY DEF AdjustInv, Sent, Compensated
  <2> QED
    BY <2>1 DEF Adjusted
<1>2. AdjustInv => WantedByLast
  <2> SUFFICES ASSUME AdjustInv, pc \in Compensated, comps # None,
                      NEW pin \in Pins, Matching(pin) # {}
               PROVE  \E c \in Matching(pin) :
                        /\ Wanted(pin) = comps[c].delayPs
                        /\ \A d \in Matching(pin) : ~Before(c, d)
    BY DEF WantedByLast
  <2>1. profile \in Profiles /\ Matching(pin) \in SUBSET Connectors
    BY DEF AdjustInv, CardInv, Applied, OfProfile, Matching, Compensated
  <2> QED
    BY <2>1, LastExists DEF Wanted
<1> QED
  BY <1>1, <1>2, AdjustInit, AdjustNext, PTL DEF Spec

(* PinPhaseAdjust touches a pin only if a card of the profile, with the    *)
(* clock ID of the pin, has a connector with the label of the pin.         *)
THEOREM OthersAreLeft == Spec => OtherPinsAreLeft
<1> DEFINE Left ==
      \A pin \in Pins : phaseAdjust'[pin] # phaseAdjust[pin] =>
        \E i \in DOMAIN profile.delays :
          /\ clockIdOf[profile.delays[i].id] = pin.clockId
          /\ pin.label \in Labels(profile.delays[i])
<1>1. ASSUME AdjustInv, PinPhaseAdjust
      PROVE  Left
  <2> SUFFICES ASSUME NEW pin \in Pins, phaseAdjust'[pin] # phaseAdjust[pin]
               PROVE  \E i \in DOMAIN profile.delays :
                        /\ clockIdOf[profile.delays[i].id] = pin.clockId
                        /\ pin.label \in Labels(profile.delays[i])
    OBVIOUS
  <2>1. PICK sent \in SUBSET CompsOf(Head(todo)) :
          phaseAdjust' = IF sent = {} \/ Head(todo) \in RefusingPins THEN phaseAdjust
                         ELSE [phaseAdjust EXCEPT ![Head(todo)] = comps[Last(sent)].delayPs]
    BY <1>1 DEF PinPhaseAdjust
  <2>2. pin = Head(todo) /\ CompsOf(pin) # {}
    BY <1>1, <2>1 DEF AdjustInv, Hardware
  <2>3. PICK c \in CompsOf(pin) : TRUE
    BY <2>2
  <2>4. pc \in Compensated /\ comps # None
    BY <1>1 DEF PinPhaseAdjust, Compensated
  <2>5. /\ c \in Connectors
        /\ pin.clockId \in {clockIdOf[profile.delays[c[1]].id], NoClock}
        /\ pin.label \in Labels(profile.delays[c[1]])
    BY <1>1, <2>3, <2>4 DEF AdjustInv, OfProfile, CompsOf
  <2>6. c[1] \in DOMAIN profile.delays
    BY <1>1, <2>4, <2>5, ConnectorType DEF AdjustInv, CardInv, Applied, Compensated
  <2> QED
    BY <2>5, <2>6, HardwarePluginAssumption
<1>2. ASSUME Next, ~PinPhaseAdjust
      PROVE  phaseAdjust' = phaseAdjust
  BY <1>2 DEF Next, Daemon, ApplyNodePTPProfiles, OnPTPConfigChange, SendDelayCompensation,
       NilCompensations, SentAll, AddSettings, CreateDplls, AfterRunPTPCommand, PopulateHwConfig,
       Populated, Main, Tick, ResetRefresh, SameConfig, Publisher, GetResource,
       PopulateNodePTPDevices, UpdateStatus, Restart
<1>3. AdjustInv /\ [Next]_vars => [Left]_vars
  BY <1>1, <1>2
<1> QED
  BY <1>3, AdjustInit, AdjustNext, PTL DEF Spec, OtherPinsAreLeft
=============================================================================
