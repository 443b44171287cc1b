---------------------------- MODULE Lab11Handler ----------------------------
(***************************************************************************)
(* lab11-ble-handler.js with the beacons it is called with                 *)
(* (edystone-beacon-parser.js, ble-controller.js): the handler downloads a *)
(* parse.js for the URL a device advertises and parses the advertisements  *)
(* of the device with it.  Downloads overlap, fail and may return a text   *)
(* that does not load; a failure falls back on the texts in                *)
(* cached_parsers.json.                                                    *)
(***************************************************************************)
EXTENDS Naturals, Sequences, FiniteSets

CONSTANTS
  Devices,      \* peripheral ids
  Urls,         \* request_urls of parse.js
  NoUrl,        \* stands for a short URL that urlConverter cannot expand
  UrlOf,        \* device -> the request_url its short URL expands to
  MaxFetches,   \* bound: requests under way for a device
  MaxBad,       \* bound: texts downloaded that do not load
  MaxRestarts   \* bound: restarts of the device manager

ASSUME Lab11Assumption ==
  /\ NoUrl \notin Urls /\ UrlOf \in [Devices -> Urls \union {NoUrl}]
  /\ MaxFetches \in Nat /\ MaxBad \in Nat /\ MaxRestarts \in Nat

VARIABLES
  discovered,  \* device -> type of its last beacon, or none (_discovered)
  known,       \* keys of _device_to_data
  age,         \* device -> none, new, used or old (_device_id_ages)
  fetches,     \* device -> number of requests for its parse.js
  cache,       \* texts of _cached_parsers, in the order of its keys
  parsers,     \* urls of _cached_parsers with a parser
  file,        \* cached_parsers.json; empty when there is none
  handled,     \* devices whose advertisement the last step has parsed
  bad, restarts

bounds == <<bad, restarts>>
store == <<cache, parsers, file>>
labvars == <<discovered, known, age, fetches, store, handled, bounds>>

LabInit ==
  /\ discovered = [d \in Devices |-> "none"]
  /\ known = {}
  /\ age = [d \in Devices |-> "none"]
  /\ fetches = [d \in Devices |-> 0]
  /\ cache = <<>> /\ parsers = {} /\ file = <<>>
  /\ handled = {}
  /\ bad = 0 /\ restarts = 0

-----------------------------------------------------------------------------
Keys(texts) == {texts[k].url : k \in DOMAIN texts}

(* An object keeps the place of a key that is assigned again.              *)
Put(texts, url, loads) ==
  IF url \in Keys(texts)
  THEN [k \in DOMAIN texts |->
          IF texts[k].url = url THEN [url |-> url, loads |-> loads] ELSE texts[k]]
  ELSE Append(texts, [url |-> url, loads |-> loads])

(* parse(): a tlm frame takes its type, and the url, from the beacon       *)
(* before it.                                                              *)
TypeOf(d, frame) ==
  IF frame = "tlm" /\ discovered[d] # "none" THEN discovered[d] ELSE frame

Fresh(d) == age[d] \in {"new", "used"}

(* _handlePeripheral(): parsed if a parser is there.                       *)
HandlePeripheral(d) ==
  /\ handled' = IF d \in known /\ UrlOf[d] \in parsers THEN {d} ELSE {}
  /\ age' = [age EXCEPT ![d] = "used"]
  /\ UNCHANGED <<known, fetches>>

(* Mutant: the age is set by a download only.                              *)
FindUnmarked(d) ==
  /\ known' = known \union {d}
  /\ handled' = {}
  /\ UrlOf[d] \notin Keys(cache) => fetches[d] < MaxFetches
  /\ fetches' = IF UrlOf[d] \in Keys(cache) THEN fetches ELSE [fetches EXCEPT ![d] = @ + 1]
  /\ UNCHANGED age

(* A text that is not known yet is requested; one that is counts as found. *)
FindParser(d) ==
  /\ known' = known \union {d}
  /\ handled' = {}
  /\ \/ /\ UrlOf[d] \in Keys(cache)
        /\ age' = [age EXCEPT ![d] = "new"]
        /\ UNCHANGED fetches
     \/ /\ UrlOf[d] \notin Keys(cache)
        /\ fetches[d] < MaxFetches
        /\ fetches' = [fetches EXCEPT ![d] = @ + 1]
        /\ UNCHANGED age

(* getEddystonePeripherals() and _handleBeacon() of a frame from d.        *)
Beacon(d, frame) ==
  /\ discovered' = [discovered EXCEPT ![d] = TypeOf(d, frame)]
  /\ IF Fresh(d) THEN HandlePeripheral(d)
     ELSE IF TypeOf(d, frame) = "url" /\ UrlOf[d] # NoUrl THEN FindParser(d)
     ELSE handled' = {} /\ UNCHANGED <<known, age, fetches>>
  /\ UNCHANGED <<store, bounds>>

(* got_parse_js(), status 200: the text is stored and written, and loaded  *)
(* if it can be.                                                           *)
Fetched(d, loads) ==
  /\ fetches[d] > 0
  /\ loads \/ bad < MaxBad
  /\ bad' = IF loads THEN bad ELSE bad + 1
  /\ fetches' = [fetches EXCEPT ![d] = @ - 1]
  /\ cache' = Put(cache, UrlOf[d], loads)
  /\ file' = cache'
  /\ parsers' = IF loads THEN parsers \union {UrlOf[d]} ELSE parsers \ {UrlOf[d]}
  /\ age' = IF loads THEN [age EXCEPT ![d] = "new"] ELSE age
  /\ handled' = {}
  /\ UNCHANGED <<discovered, known, restarts>>

AllLoad(texts) == \A k \in DOMAIN texts : texts[k].loads

(* Mutant: loading ends with the first.                                    *)
LoadedFirst(texts) == {texts[k].url : k \in {j \in {1} \intersect DOMAIN texts : texts[j].loads}}

(* The parsers loaded from texts in their order, up to one that does not.  *)
Loaded(texts) == {texts[k].url : k \in {j \in DOMAIN texts : AllLoad(SubSeq(texts, 1, j))}}

(* Mutant: the parser of the failed request is forgotten.                  *)
Forgets(d) ==
  /\ cache' = SelectSeq(file, LAMBDA t : t.url # UrlOf[d])
  /\ parsers' = Loaded(file) \ {UrlOf[d]}

(* The file replaces the cache.                                            *)
ReadBack(d) ==
  /\ cache' = file
  /\ parsers' = Loaded(file)

(* got_parse_js() of a failed request: the cached texts, if there are any. *)
FetchFails(d) ==
  /\ fetches[d] > 0
  /\ fetches' = [fetches EXCEPT ![d] = @ - 1]
  /\ IF file = <<>> THEN UNCHANGED <<cache, parsers, age>>
     ELSE /\ ReadBack(d)
          /\ age' = IF AllLoad(file) THEN [age EXCEPT ![d] = "new"] ELSE age
  /\ handled' = {}
  /\ UNCHANGED <<discovered, known, file, bounds>>

(* Five minutes have passed since the age was set.  A device is heard of   *)
(* more often than that.                                                   *)
Expire(d) ==
  /\ age[d] = "used"
  /\ age' = [age EXCEPT ![d] = "old"]
  /\ handled' = {}
  /\ UNCHANGED <<discovered, known, fetches, store, bounds>>

Restart ==
  /\ restarts < MaxRestarts
  /\ restarts' = restarts + 1
  /\ discovered' = [d \in Devices |-> "none"]
  /\ known' = {}
  /\ age' = [d \in Devices |-> "none"]
  /\ fetches' = [d \in Devices |-> 0]
  /\ cache' = <<>> /\ parsers' = {}
  /\ handled' = {}
  /\ UNCHANGED <<file, bad>>

Frames == {"url", "uid", "tlm"}

LabNext ==
  \/ \E d \in Devices :
       \/ \E frame \in Frames : Beacon(d, frame)
       \/ \E loads \in BOOLEAN : Fetched(d, loads)
       \/ FetchFails(d) \/ Expire(d)
  \/ Restart

LabSpec == LabInit /\ [][LabNext]_labvars

(* Devices keep advertising their URL, time passes, and a request that is  *)
(* made again and again succeeds in the end.                               *)
LabFairSpec ==
  /\ LabSpec
  /\ \A d \in Devices :
       /\ WF_labvars(Beacon(d, "url")) /\ WF_labvars(Expire(d))
       /\ SF_labvars(Fetched(d, TRUE))

-----------------------------------------------------------------------------
LabTypeOK ==
  /\ discovered \in [Devices -> Frames \union {"none"}]
  /\ known \subseteq Devices
  /\ age \in [Devices -> {"none", "new", "used", "old"}]
  /\ fetches \in [Devices -> 0..MaxFetches]
  /\ cache \in Seq([url : Urls, loads : BOOLEAN])
  /\ file \in Seq([url : Urls, loads : BOOLEAN])
  /\ parsers \subseteq Urls
  /\ handled \subseteq Devices
  /\ bad \in 0..MaxBad /\ restarts \in 0..MaxRestarts

(* What a fallback puts in the place of the cache is what was there: the   *)
(* file is behind the cache at no time, and only a restart empties the     *)
(* cache alone.  Every parser is that of a text in the cache that loads.   *)
CacheOnDisk ==
  /\ cache # <<>> => cache = file
  /\ \A u \in parsers : \E k \in DOMAIN cache : cache[k] = [url |-> u, loads |-> TRUE]

CacheInv == LabTypeOK /\ CacheOnDisk

(* "Keep a map of URL -> parse.js parsers so we don't have to re-download  *)
(* parse.js for the same devices" (line 24): however downloads overlap and *)
(* fail, a parser stays, unless a text has come that does not load.        *)
ParsersStay ==
  [][restarts' = restarts /\ AllLoad(file) /\ AllLoad(file') => parsers \subseteq parsers']_labvars

(* Every device whose URL expands is handled again and again, unless a     *)
(* text has come that does not load.                                       *)
HandledAgain ==
  \A d \in {e \in Devices : UrlOf[e] # NoUrl} :
    []AllLoad(file) => []<>(d \in handled)
=============================================================================
