----------------------------- MODULE Emulators -----------------------------
(***************************************************************************)
(* Emulator images: AndroidVirtualDeviceService and AndroidGenymotionService *)
(* list the images and find out which of them runs under which identifier, *)
(* IosEmulatorServices lists the simulators, the discoveries report the    *)
(* images that come and go to DevicesService, and a caller of              *)
(* DevicesService starts one.  Emulators start, boot and stop on their     *)
(* own, and another emulator may get the identifier of one that stopped.   *)
(***************************************************************************)
EXTENDS Naturals

CONSTANTS
    Avds, Genies, Simulators,   \* images of the three vendors
    AvdIds, GenyIds,            \* identifiers that a running emulator can have: emulator-5554, 192.168.56.101:5555
    NoImage, NoId,              \* null
    Starters,                   \* calls that start an emulator
    MaxChanges                  \* how often an emulator starts or stops or an image comes or goes (bound)

Android == Avds \cup Genies
Images == Android \cup Simulators
Ids == AvdIds \cup GenyIds
Callers == {"discovery"} \cup Starters

\* A row of adb is one vendor's, by its form, and an image is of one platform.
ASSUME EmulatorsAssumption ==
    /\ "discovery" \notin Starters /\ NoImage \notin Images /\ NoId \notin Ids /\ MaxChanges \in Nat
    /\ AvdIds \cap GenyIds = {} /\ Android \cap Simulators = {}

VARIABLES
    installed,  \* images that exist
    runs,       \* identifier -> the image that runs under it
    booted,     \* identifiers and simulators that have booted
    imageOf,    \* mapEmulatorIdToImageIdentifier
    list,       \* the listing of each caller: its place, the rows of adb, the images found so far
                \* with the identifier each runs under, the ids whose console was asked, and whether it has errors
    known,      \* AndroidEmulatorDiscovery._emulators and IOSSimulatorDiscovery.availableSimulators: the
                \* images with the identifier they had when they were found
    available,  \* DevicesService._availableEmulators
    start,      \* the calls that start an emulator
    changes,
    ran         \* history: <<identifier, image>> that ran at some time

world == <<installed, runs, booted, changes, ran>>
emulatorsVars == <<world, imageOf, list, known, available, start>>

----------------------------------------------------------------------------
(* The emulators themselves *)

IdsFor(image) == IF image \in Avds THEN AvdIds ELSE GenyIds

Change == changes < MaxChanges /\ changes' = changes + 1
ServicesUnchanged == UNCHANGED <<imageOf, list, known, available, start>>

EmulatorStarts(image, id) ==
    /\ Change /\ image \in installed \cap Android /\ id \in IdsFor(image)
    /\ runs[id] = NoImage /\ \A other \in Ids : runs[other] # image
    /\ runs' = [runs EXCEPT ![id] = image] /\ ran' = ran \cup {<<id, image>>}
    /\ UNCHANGED <<installed, booted>> /\ ServicesUnchanged

BootCompletes(it) ==
    /\ it \notin booted
    /\ it \in installed \cap Simulators \/ (it \in Ids /\ runs[it] # NoImage)
    /\ booted' = booted \cup {it}
    /\ UNCHANGED <<installed, runs, changes, ran>> /\ ServicesUnchanged

EmulatorStops(id) ==
    /\ Change /\ runs[id] # NoImage
    /\ runs' = [runs EXCEPT ![id] = NoImage] /\ booted' = booted \ {id}
    /\ UNCHANGED <<installed, ran>> /\ ServicesUnchanged

ImageComesOrGoes(image) ==
    /\ Change /\ \A id \in Ids : runs[id] # image
    /\ installed' = IF image \in installed THEN installed \ {image} ELSE installed \cup {image}
    /\ booted' = booted \ {image}
    /\ UNCHANGED <<runs, ran>> /\ ServicesUnchanged

----------------------------------------------------------------------------
(* A listing *)

NoList == [at |-> "none", rows |-> {}, images |-> <<>>, asked |-> {}, errors |-> FALSE]

Unmarked(images) == [i \in images |-> NoId]
Add(images, more) == [i \in DOMAIN images \cup DOMAIN more |-> IF i \in DOMAIN images THEN images[i] ELSE more[i]]
Mark(images, id, image) == IF image \in DOMAIN images THEN [images EXCEPT ![image] = id] ELSE images

At(c, place) == list[c].at = place
SetList(c, l) == list' = [list EXCEPT ![c] = l]
ListUnchanged == UNCHANGED <<world, known, available, start>>

\* IosEmulatorServices.getEmulatorImages: no devices and an error when ios-sim-portable fails.
ListSimulators(c) ==
    /\ At(c, "simulators")
    /\ \/ SetList(c, [list[c] EXCEPT !.images = [i \in installed \cap Simulators |-> IF i \in booted THEN i ELSE NoId], !.at = "adb"])
       \/ SetList(c, [list[c] EXCEPT !.errors = TRUE, !.at = "adb"])
    /\ ListUnchanged /\ UNCHANGED imageOf

\* getDevicesSafe: no rows when adb fails.
ListDevices(c) ==
    /\ At(c, "adb")
    /\ \E rows \in {{}, {id \in Ids : runs[id] # NoImage}} : SetList(c, [list[c] EXCEPT !.rows = rows, !.at = "avds"])
    /\ ListUnchanged /\ UNCHANGED imageOf

\* getEmulatorImages of the virtual devices: the images from the tools or the
\* directory (the tools may print an error as well); the image of an id whose
\* image is remembered is known at once, the others' consoles are asked.
ListAvds(c) ==
    /\ At(c, "avds")
    /\ \E errors \in {list[c].errors, TRUE} :
          LET asked == list[c].rows \cap AvdIds
              found(i) == {id \in asked : imageOf[id] = i}
              avds == [i \in installed \cap Avds |-> IF found(i) = {} THEN NoId ELSE CHOOSE id \in found(i) : TRUE]
          IN  SetList(c, [list[c] EXCEPT !.images = Add(@, avds), !.errors = errors, !.at = "asking",
                                         !.asked = {id \in asked : imageOf[id] = NoImage}])
    /\ ListUnchanged /\ UNCHANGED imageOf

\* getRunningEmulatorImageIdentifier: the console answers, and the image is
\* remembered for good; or nothing for five seconds, or an error.
ConsoleAnswers(c, id) ==
    /\ At(c, "asking") /\ id \in list[c].asked
    /\ \/ /\ runs[id] # NoImage
          /\ imageOf' = [imageOf EXCEPT ![id] = runs[id]]
          /\ SetList(c, [list[c] EXCEPT !.asked = @ \ {id}, !.images = Mark(@, id, runs[id])])
       \/ /\ SetList(c, [list[c] EXCEPT !.asked = @ \ {id}])
          /\ UNCHANGED imageOf
    /\ ListUnchanged

\* getEmulatorImages of Genymotion: no images and an error when VBoxManage fails.
ListVms(c) ==
    /\ At(c, "asking") /\ list[c].asked = {}
    /\ \/ SetList(c, [list[c] EXCEPT !.images = Add(@, Unmarked(installed \cap Genies)), !.at = "naming"])
       \/ SetList(c, [list[c] EXCEPT !.errors = TRUE, !.at = "naming"])
    /\ ListUnchanged /\ UNCHANGED imageOf

\* Which rows are Genymotion emulators and the names of these, asked by adb; a
\* property that cannot be read rejects the whole listing.
NameGenies(c) ==
    /\ At(c, "naming")
    /\ LET answering == {id \in list[c].rows \cap GenyIds : runs[id] # NoImage}
           RunsNow(i) == {id \in answering : runs[id] = i}
       IN  \/ SetList(c, [list[c] EXCEPT !.at = "done",
                                         !.images = [i \in DOMAIN @ |-> IF RunsNow(i) = {} THEN @[i] ELSE CHOOSE id \in RunsNow(i) : TRUE]])
           \/ list[c].rows \cap GenyIds # {} /\ SetList(c, [NoList EXCEPT !.at = "rejected"])
    /\ ListUnchanged /\ UNCHANGED imageOf

----------------------------------------------------------------------------
(* The discoveries *)

DiscoveryUnchanged == UNCHANGED <<world, imageOf, start>>

\* detectCurrentlyAvailableEmulators: the interval never runs it twice at a time.
DetectEmulators ==
    /\ At("discovery", "none")
    /\ SetList("discovery", [NoList EXCEPT !.at = "adb"])
    /\ DiscoveryUnchanged /\ UNCHANGED <<known, available>>

\* onEmulatorImageLost, onEmulatorImageFound
Report(images, lost, found) ==
    /\ known' = [i \in (DOMAIN known \ lost) \cup found |-> IF i \in found THEN images[i] ELSE known[i]]
    /\ available' = (available \ lost) \cup found

\* AndroidEmulatorDiscovery reports the difference.
ReportEmulators ==
    /\ list["discovery"].at \in {"done", "rejected"}
    /\ LET images == list["discovery"].images
           old == DOMAIN known \cap Android
       IN  IF At("discovery", "done") THEN Report(images, old \ DOMAIN images, DOMAIN images \ old)
           ELSE UNCHANGED <<known, available>>
    /\ SetList("discovery", [NoList EXCEPT !.at = "available"])
    /\ DiscoveryUnchanged

\* checkForAvailableSimulators looks for each known simulator among the known ones: none is ever lost.
CheckForAvailableSimulators ==
    /\ At("discovery", "available")
    /\ \E simulators \in {{}, installed \cap Simulators} :
          Report([i \in simulators |-> IF i \in booted THEN i ELSE NoId], {}, simulators \ DOMAIN known)
    /\ SetList("discovery", NoList)
    /\ DiscoveryUnchanged

----------------------------------------------------------------------------
(* Starting an emulator *)

NotStarted == [at |-> "none", image |-> NoImage, id |-> NoId, spawned |-> 0, answer |-> "none"]

StartUnchanged == UNCHANGED <<world, imageOf, known, available>>
Answer(s, answer) == start' = [start EXCEPT ![s].at = "answered", ![s].answer = answer] /\ SetList(s, NoList)
Continue(s, step, place) == start' = [start EXCEPT ![s] = step] /\ SetList(s, [NoList EXCEPT !.at = place])
Listed(s) == DOMAIN list[s].images

\* DevicesService.startEmulator begins with a listing of every vendor; initialize
\* calls the service of the platform itself, with an image or with none.
StartEmulator(s) ==
    /\ start[s].at = "none"
    /\ \/ \E image \in Images : Continue(s, [NotStarted EXCEPT !.at = "choose", !.image = image], "simulators")
       \/ \E image \in Images \cup {NoImage} : Continue(s, [NotStarted EXCEPT !.at = "options", !.image = image], "adb")
    /\ StartUnchanged

\* A listing that is rejected rejects the call.
ListingRejects(s) ==
    /\ start[s].at # "answered" /\ At(s, "rejected")
    /\ Answer(s, "rejected")
    /\ StartUnchanged

ChooseEmulator(s) ==
    /\ start[s].at = "choose" /\ At(s, "done")
    /\ LET image == start[s].image
       IN  \/ (list[s].errors \/ image \notin Listed(s)) /\ Answer(s, "errors")
           \/ /\ ~list[s].errors /\ image \in Listed(s)
              /\ \/ list[s].images[image] # NoId /\ Answer(s, "running")
                 \/ /\ list[s].images[image] = NoId /\ image \in Android
                    /\ Continue(s, [start[s] EXCEPT !.at = "chosen"], "adb")
                 \* IosEmulatorServices.startEmulator
                 \/ /\ list[s].images[image] = NoId /\ image \in Simulators
                    /\ \E answer \in {"simulator", "errors"} : Answer(s, answer)
    /\ StartUnchanged

\* startEmulatorCore: the emulator of the options, or the one with their image, or
\* the best one when they name none; spawnEmulator, unless its errorHelp says why
\* not or there is no time left.
Spawn(s, image) == Continue(s, [start[s] EXCEPT !.at = "wait", !.image = image, !.spawned = @ + 1], "adb")

SpawnEmulator(s) ==
    /\ start[s].at \in {"chosen", "options"} /\ At(s, "done")
    /\ LET image == start[s].image
           candidates == IF start[s].at = "chosen" THEN {image}
                         ELSE IF image = NoImage THEN Listed(s) ELSE {image} \cap Listed(s)
       IN  Answer(s, "errors") \/ \E i \in candidates : Spawn(s, i)
    /\ StartUnchanged

\* Mutant of LookForEmulator: any emulator that runs will do.
LookForAnyEmulator(s) ==
    /\ start[s].at = "wait" /\ At(s, "done")
    /\ \/ \E i \in Listed(s) : /\ list[s].images[i] # NoId
                                 /\ start' = [start EXCEPT ![s].at = "boot", ![s].id = list[s].images[i]]
       \/ /\ \A i \in Listed(s) : list[s].images[i] = NoId
          /\ start' = [start EXCEPT ![s].at = "sleep"]
    /\ SetList(s, NoList) /\ StartUnchanged

\* The emulator among the images listed now: running, not running, or not listed;
\* in that case the variable is lost with it.
LookForEmulator(s) ==
    /\ start[s].at = "wait" /\ At(s, "done")
    /\ LET image == start[s].image
       IN  \/ /\ image \in Listed(s) /\ list[s].images[image] # NoId
              /\ start' = [start EXCEPT ![s].at = "boot", ![s].id = list[s].images[image]]
              /\ SetList(s, NoList)
           \/ /\ image \in Listed(s) => list[s].images[image] = NoId
              /\ image = NoImage => Listed(s) = {}
              /\ start' = [start EXCEPT ![s].at = "sleep", ![s].image = IF image \in Listed(s) THEN image ELSE NoImage]
              /\ SetList(s, NoList)
           \/ image = NoImage /\ Listed(s) # {} /\ Answer(s, "throws")
    /\ StartUnchanged

\* After ten seconds: the next listing, or the time is over.
SleepEnds(s) ==
    /\ start[s].at = "sleep"
    /\ Continue(s, [start[s] EXCEPT !.at = "wait"], "adb") \/ Answer(s, "errors")
    /\ StartUnchanged

\* waitForEmulatorBootToComplete: dev.bootcomplete, again and again while there is time; adb may fail.
WaitForBoot(s) ==
    /\ start[s].at = "boot"
    /\ \/ start[s].id \in booted /\ Answer(s, "started")
       \/ \E answer \in {"errors", "rejected"} : Answer(s, answer)
    /\ StartUnchanged

----------------------------------------------------------------------------
EmulatorsInit ==
    /\ installed = Images /\ runs = [id \in Ids |-> NoImage] /\ booted = {}
    /\ imageOf = [id \in AvdIds |-> NoImage]
    /\ list = [c \in Callers |-> NoList] /\ known = <<>> /\ available = {}
    /\ start = [s \in Starters |-> NotStarted]
    /\ changes = 0 /\ ran = {}

EmulatorsNext ==
    \/ \E image \in Android, id \in Ids : EmulatorStarts(image, id)
    \/ \E it \in Ids \cup Simulators : BootCompletes(it)
    \/ \E id \in Ids : EmulatorStops(id)
    \/ \E image \in Images : ImageComesOrGoes(image)
    \/ \E c \in Callers :
          \/ ListSimulators(c) \/ ListDevices(c) \/ ListAvds(c) \/ ListVms(c) \/ NameGenies(c)
          \/ \E id \in AvdIds : ConsoleAnswers(c, id)
    \/ DetectEmulators \/ ReportEmulators \/ CheckForAvailableSimulators
    \/ \E s \in Starters :
          \/ StartEmulator(s) \/ ListingRejects(s) \/ ChooseEmulator(s) \/ SpawnEmulator(s)
          \/ LookForEmulator(s) \/ SleepEnds(s) \/ WaitForBoot(s)

EmulatorsSpec == EmulatorsInit /\ [][EmulatorsNext]_emulatorsVars

----------------------------------------------------------------------------
(* What makes it correct *)

\* Listings and starts have their shapes; DevicesService has the images that the discoveries know.
EmulatorsTypeOK ==
    /\ installed \subseteq Images /\ runs \in [Ids -> Android \cup {NoImage}] /\ booted \subseteq Ids \cup Simulators
    /\ imageOf \in [AvdIds -> Avds \cup {NoImage}]
    /\ \A c \in Callers : DOMAIN list[c].images \subseteq Images /\ list[c].rows \subseteq Ids /\ list[c].asked \subseteq list[c].rows
    /\ available = DOMAIN known /\ available \subseteq Images
    /\ \A s \in Starters : start[s].spawned \in 0 .. 1 /\ start[s].image \in Images \cup {NoImage}

\* A start that is answered without errors is truthful: the image that was asked
\* for ran under the identifier that was awaited, and it was started once.
StartedHasRun ==
    \A s \in Starters : start[s].answer = "started" => start[s].spawned = 1 /\ <<start[s].id, start[s].image>> \in ran
============================================================================
