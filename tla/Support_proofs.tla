--------------------------- MODULE Support_proofs ---------------------------
(***************************************************************************)
(* The suite MCSupport keeps what is proved of its parts.  A behaviour of   *)
(* the suite is one of a single part, so that each part's inductive         *)
(* invariant holds while that part runs; SupportParts_proofs,               *)
(* EtcdWatch_proofs and TaskQueues_proofs are instantiated with the sets    *)
(* that the suite chooses, the bounds stay parameters.                      *)
(***************************************************************************)
EXTENDS MCSupport, FiniteSetTheorems, TLAPS

(* The parts of the suite, with one caller of the uploads and names that    *)
(* stand for their content.                                                 *)
P == INSTANCE SupportParts_proofs WITH
         Versions <- {509, 601, 602, 610, 700}, Topics <- {"t", "u"}, Known <- {"t"}, Raw <- {0, 6}, MaxLen <- 3,
         RegCallers <- {"c", "d"}, RegServices <- {{"m", "n"}},
         AloneCallers <- {"c", "d"}, AloneServices <- {{"m", "n"}, {"o"}}, Keys <- {"k"}, Values <- {"v"},
         UpContents <- {"a", "d", "b"}, Large <- {"b"}, Uploads <- {"u", "v"}, UpCalls <- {"c"}, Copies <- {"k"},
         Faults <- FALSE, MaxDeletes <- 0, None <- "none", ImNames <- {"n", "m"}, ImContents <- {"n", "m"},
         Sizes <- {"s", "t"}, ImCallers <- {"p"}, Addressed <- TRUE, Users <- {"u", "v"},
         KServices <- {"s", "t"}, WatchNames <- {"s"}, KAddrs <- {"a", "b"}
-----------------------------------------------------------------------------
(* The versions and configuration values of the suite are numbers. *)
LEMMA BuilderSized == P!BuilderSized
  BY DEF P!BuilderSized

(* A builder that has handed out nothing satisfies its invariant. *)
LEMMA BuilderBegins == ASSUME Builder!Init PROVE P!BuilderInv
  <1>1. P!Builder!Init
    BY Zenon DEF Builder!Down, Builder!Configs, Builder!Default, Builder!fillDefault, Builder!Init,
           P!Builder!Down, P!Builder!Configs, P!Builder!Default, P!Builder!fillDefault, P!Builder!Init
  <1> QED
    BY <1>1, BuilderSized, P!BuilderStarts

(* Every call of the builder, and what happens to the server, keeps its     *)
(* invariant.                                                               *)
LEMMA BuilderGoesOn == ASSUME P!BuilderInv, [Builder!Next]_builderVars PROVE P!BuilderInv'
  <1>1. [P!Builder!Next]_(P!Builder!vars)
    BY Zenon DEF builderVars, Builder!vars, Builder!config, Builder!stream, Builder!Down, Builder!MinVersion,
           Builder!checkServerVersion, Builder!check, Builder!Get, Builder!GetTopicProducer,
           Builder!GetTopicConsumer, Builder!Outage, Builder!Back, Builder!SendMessage, Builder!Ack,
           Builder!Next, P!Builder!vars, P!Builder!config, P!Builder!stream, P!Builder!Down,
           P!Builder!MinVersion, P!Builder!checkServerVersion, P!Builder!check, P!Builder!Get,
           P!Builder!GetTopicProducer, P!Builder!GetTopicConsumer, P!Builder!Outage, P!Builder!Back,
           P!Builder!SendMessage, P!Builder!Ack, P!Builder!Next
  <1> QED
    BY <1>1, BuilderSized, P!BuilderNext

(* The builder fails closed, its defaults renew in time, its cap trims      *)
(* nothing that is unacknowledged.                                          *)
LEMMA BuilderHolds ==
    ASSUME P!BuilderInv
    PROVE  Builder!FailClosed /\ Builder!DefaultsFit /\ Builder!CapKeepsPending
  BY BuilderSized, P!BuilderImplies, Zenon
     DEF Builder!MinVersion, Builder!FailClosed, Builder!DefaultsFit, Builder!CapKeepsPending,
         P!Builder!MinVersion, P!Builder!FailClosed, P!Builder!DefaultsFit, P!Builder!CapKeepsPending

(* Two callers, and a bounded number of calls. *)
LEMMA RegSized == P!RegSized
  <1>1. IsFiniteSet({"c"} \cup {"d"})
    BY FS_Singleton, FS_AddElement, Zenon
  <1>2. {"c"} \cup {"d"} = {"c", "d"}
    OBVIOUS
  <1>3. IsFiniteSet({"c", "d"})
    BY <1>1, <1>2
  <1> QED
    BY <1>3, SupportAssumption DEF P!RegSized, P!IsFiniteSet, IsFiniteSet, SupportAssumption

(* An empty method registry satisfies its invariant. *)
LEMMA RegBegins == ASSUME Reg!Init PROVE P!RegInv
  <1>1. P!Reg!Init
    BY Zenon DEF Reg!Methods, Reg!Waiters, Reg!NoWaiter, Reg!Idle, Reg!Init, P!Reg!Methods, P!Reg!Waiters,
           P!Reg!NoWaiter, P!Reg!Idle, P!Reg!Init
  <1> QED
    BY <1>1, RegSized, P!RegStarts

(* Every step of Invoke, RegisterService and close keeps the invariant of   *)
(* the method registry.                                                     *)
LEMMA RegGoesOn == ASSUME P!RegInv, [Reg!Next]_regVars PROVE P!RegInv'
  <1>1. [P!Reg!Next]_(P!Reg!vars)
    BY ZenonT(60) DEF regVars, Reg!Methods, Reg!Waiters, Reg!NoWaiter, Reg!vars, Reg!Idle, Reg!RegisterService,
           Reg!getUnaryHandler, Reg!giveUp, Reg!wakeUp, Reg!releaseWaiter, Reg!Invoke, Reg!close,
           Reg!closeReady, Reg!Next, P!Reg!Methods, P!Reg!Waiters, P!Reg!NoWaiter, P!Reg!vars, P!Reg!Idle,
           P!Reg!RegisterService, P!Reg!getUnaryHandler, P!Reg!giveUp, P!Reg!wakeUp, P!Reg!releaseWaiter,
           P!Reg!Invoke, P!Reg!close, P!Reg!closeReady, P!Reg!Next
  <1> QED
    BY <1>1, RegSized, P!RegNext

(* method_registry: nobody is stranded, waiters are counted, channels are   *)
(* closed once.                                                             *)
LEMMA RegHolds ==
    ASSUME P!RegInv
    PROVE  Reg!TypeOK /\ Reg!NoStranded /\ Reg!WaitersCounted /\ Reg!ClosedOnce /\ Reg!WokenHasHandler
  BY RegSized, P!RegImplies, Zenon
     DEF Reg!Methods, Reg!Waiters, Reg!NoWaiter, Reg!TypeOK, Reg!NoStranded, Reg!WaitersCounted,
         Reg!ClosedOnce, Reg!WokenHasHandler, Reg!Cardinality, Reg!IsFiniteSet, P!Reg!Methods, P!Reg!Waiters,
         P!Reg!NoWaiter, P!Reg!TypeOK, P!Reg!NoStranded, P!Reg!WaitersCounted, P!Reg!ClosedOnce,
         P!Reg!WokenHasHandler, P!Reg!Cardinality, P!Reg!IsFiniteSet

(* An empty standalone registry satisfies its invariant. *)
LEMMA AloneBegins == ASSUME Alone!Init PROVE P!AloneInv
  <1>1. P!Alone!Init
    BY Zenon DEF Alone!Methods, Alone!NoChan, Alone!Idle, Alone!Init, P!Alone!Methods, P!Alone!NoChan,
           P!Alone!Idle, P!Alone!Init
  <1> QED
    BY <1>1, P!AloneStarts

(* Every step of Invoke and RegisterService keeps the invariant of the      *)
(* standalone registry.                                                     *)
LEMMA AloneGoesOn == ASSUME P!AloneInv, [Alone!Next]_aloneVars PROVE P!AloneInv'
  <1>1. [P!Alone!Next]_(P!Alone!vars)
    BY Zenon DEF aloneVars, Alone!Methods, Alone!NoChan, Alone!vars, Alone!registry, Alone!Idle,
           Alone!RegisterService, Alone!getMethod, Alone!getMethodEnds, Alone!Invoke, Alone!SetKey,
           Alone!DelData, Alone!Next, P!Alone!Methods, P!Alone!NoChan, P!Alone!vars, P!Alone!registry,
           P!Alone!Idle, P!Alone!RegisterService, P!Alone!getMethod, P!Alone!getMethodEnds, P!Alone!Invoke,
           P!Alone!SetKey, P!Alone!DelData, P!Alone!Next
  <1> QED
    BY <1>1, P!AloneNext

(* standalone: a caller waits on a channel that registration will close. *)
LEMMA AloneHolds ==
    ASSUME P!AloneInv
    PROVE  Alone!NoStranded /\ Alone!WokenFinds
  BY P!AloneImplies, Zenon
     DEF Alone!NoStranded, Alone!WokenFinds, P!Alone!NoStranded, P!Alone!WokenFinds

(* None is no content of the suite. *)
LEMMA UploadingSized == P!UploadSized
  BY DEF P!UploadSized

(* A store without uploads satisfies their invariant. *)
LEMMA UploadingBegins == ASSUME Uploading!Init PROVE P!UploadInv
  <1>1. P!Up!Init
    BY Zenon DEF Uploading!HashPath, Uploading!TempPath, Uploading!CopyPath, Uploading!Keys, Uploading!Idle,
           Uploading!Init, P!Up!HashPath, P!Up!TempPath, P!Up!CopyPath, P!Up!Keys, P!Up!Idle, P!Up!Init
  <1> QED
    BY <1>1, UploadingSized, P!UploadStarts

(* Every step of CompleteUpload keeps the invariant, when nothing fails. *)
LEMMA UploadingGoesOn == ASSUME P!UploadInv, [Uploading!Next]_uploadVars PROVE P!UploadInv'
  <1>1. [P!Up!Next]_(P!Up!vars)
    BY ZenonT(60) DEF uploadVars, Uploading!HashPath, Uploading!TempPath, Uploading!CopyPath, Uploading!Keys,
           Uploading!vars, Uploading!Idle, Uploading!StatObject, Uploading!Cached, Uploading!Expire,
           Uploading!InitiateUpload, Uploading!ClientPut, Uploading!ClientParts, Uploading!At, Uploading!Set,
           Uploading!Goto, Uploading!Complete, Uploading!CompleteMultipart, Uploading!StatTemp, Uploading!Copy,
           Uploading!Publish, Uploading!Uncache, Uploading!Clean, Uploading!Return, Uploading!DeleteObject,
           Uploading!Client, Uploading!Step, Uploading!Next, P!Up!HashPath, P!Up!TempPath, P!Up!CopyPath,
           P!Up!Keys, P!Up!vars, P!Up!Idle, P!Up!StatObject, P!Up!Cached, P!Up!Expire, P!Up!InitiateUpload,
           P!Up!ClientPut, P!Up!ClientParts, P!Up!At, P!Up!Set, P!Up!Goto, P!Up!Complete,
           P!Up!CompleteMultipart, P!Up!StatTemp, P!Up!Copy, P!Up!Publish, P!Up!Uncache, P!Up!Clean,
           P!Up!Return, P!Up!DeleteObject, P!Up!Client, P!Up!Step, P!Up!Next
  <1> QED
    BY <1>1, UploadingSized, P!UploadNext

(* s3/cont: what is stored under a hash has it, success is stored, copies   *)
(* go.                                                                      *)
LEMMA UploadingHolds ==
    ASSUME P!UploadInv
    PROVE  Uploading!HashIntegrity /\ Uploading!SuccessIsStored /\ Uploading!NoLeftovers
  BY UploadingSized, P!UploadImplies, Zenon
     DEF Uploading!HashPath, Uploading!CopyPath, Uploading!HashIntegrity, Uploading!SuccessIsStored,
         Uploading!NoLeftovers, P!Up!HashPath, P!Up!CopyPath, P!Up!HashIntegrity, P!Up!SuccessIsStored,
         P!Up!NoLeftovers

(* One caller, and names that stand for their content. *)
LEMMA ImageSized == P!ImageSized
  BY DEF P!ImageSized

(* No thumbnails and no cached keys: the invariant of the images holds. *)
LEMMA ImageBegins == ASSUME Image!Init PROVE P!ImageInv
  <1>1. P!Img!Init
    BY Zenon DEF Image!Idle, Image!Init, P!Img!Idle, P!Img!Init
  <1> QED
    BY <1>1, ImageSized, P!ImageStarts

(* Every step of a thumbnail access or of DeleteObject keeps the invariant  *)
(* of the images.                                                           *)
LEMMA ImageGoesOn == ASSUME P!ImageInv, [Image!Next]_imageVars PROVE P!ImageInv'
  <1>1. [P!Img!Next]_(P!Img!vars)
    BY Zenon DEF imageVars, Image!vars, Image!MayHold, Image!Idle, Image!At, Image!Set,
           Image!CompleteMultipartUpload, Image!CopyObject, Image!getObjectImageInfo, Image!AccessURL,
           Image!MakeThumbnail, Image!CacheKey, Image!DeleteObject, Image!Clear, Image!RemoveObject, Image!Next,
           P!Img!vars, P!Img!MayHold, P!Img!Idle, P!Img!At, P!Img!Set, P!Img!CompleteMultipartUpload,
           P!Img!CopyObject, P!Img!getObjectImageInfo, P!Img!AccessURL, P!Img!MakeThumbnail, P!Img!CacheKey,
           P!Img!DeleteObject, P!Img!Clear, P!Img!RemoveObject, P!Img!Next
  <1> QED
    BY <1>1, ImageSized, P!ImageNext

(* s3/minio: a cached key leads to a thumbnail that exists. *)
LEMMA ImageHolds ==
    ASSUME P!ImageInv
    PROVE  Image!NoDangling
  BY ImageSized, P!ImageImplies, Zenon
     DEF Image!NoDangling, P!Img!NoDangling

(* A watcher without a stream satisfies its invariant. *)
LEMMA ReconnectBegins == ASSUME Reconnect!Init PROVE P!RecInv
  <1>1. P!Reconnect!Init
    BY Zenon DEF Reconnect!Nil, Reconnect!Init, P!Reconnect!Nil, P!Reconnect!Init
  <1> QED
    BY <1>1, P!RecStarts

(* Every step of Watch, of its callers and of Close keeps it. *)
LEMMA ReconnectGoesOn == ASSUME P!RecInv, [Reconnect!Next]_reconnectVars PROVE P!RecInv'
  <1>1. [P!Reconnect!Next]_(P!Reconnect!vars)
    BY Zenon DEF reconnectVars, Reconnect!Nil, Reconnect!vars, Reconnect!Goto, Reconnect!tokenExpires,
           Reconnect!Watch, Reconnect!updates, Reconnect!replace, Reconnect!replaceCloses, Reconnect!Close,
           Reconnect!Caller, Reconnect!Next, P!Reconnect!Nil, P!Reconnect!vars, P!Reconnect!Goto,
           P!Reconnect!tokenExpires, P!Reconnect!Watch, P!Reconnect!updates, P!Reconnect!replace,
           P!Reconnect!replaceCloses, P!Reconnect!Close, P!Reconnect!Caller, P!Reconnect!Next
  <1> QED
    BY <1>1, P!RecNext

(* etcd: a stream is in use, closed, or about to be. *)
LEMMA ReconnectHolds == ASSUME P!RecInv PROVE Reconnect!NoLeak
  <1>1. P!Reconnect!NoLeak
    BY DEF P!RecInv
  <1> QED
    BY <1>1, Zenon DEF Reconnect!NoLeak, P!Reconnect!NoLeak

(* A registry without connections satisfies its invariant. *)
LEMMA K8sBegins == ASSUME K8s!Init PROVE P!KInv
  <1>1. P!K8s!Init
    BY Zenon DEF K8s!NoEntries, K8s!Init, P!K8s!NoEntries, P!K8s!Init
  <1> QED
    BY <1>1, P!KStarts

(* Every event, rebuild and call keeps it. *)
LEMMA K8sGoesOn == ASSUME P!KInv, [K8s!Next]_k8sVars PROVE P!KInv'
  <1>1. [P!K8s!Next]_(P!K8s!vars)
    BY ZenonT(60) DEF k8sVars, K8s!vars, K8s!NoEntries, K8s!Old, K8s!AddrsOf, K8s!Op, K8s!EndpointsChange,
           K8s!initializeConns, K8s!handleEndpointChange, K8s!GetConns, K8s!resetConnMap, K8s!AddOption, K8s!Close,
           K8s!Next, P!K8s!vars, P!K8s!NoEntries, P!K8s!Old, P!K8s!AddrsOf, P!K8s!Op, P!K8s!EndpointsChange,
           P!K8s!initializeConns, P!K8s!handleEndpointChange, P!K8s!GetConns, P!K8s!resetConnMap, P!K8s!AddOption,
           P!K8s!Close, P!K8s!Next
  <1> QED
    BY <1>1, P!KNext

(* kubernetes: the open connections are those of the map, which keeps up,   *)
(* with all the options.                                                    *)
LEMMA K8sHolds == ASSUME P!KInv PROVE K8s!OpenIsMapped /\ K8s!KeepsUp /\ K8s!CurrentOptions
  <1>1. P!K8s!OpenIsMapped /\ P!K8s!KeepsUp /\ P!K8s!CurrentOptions
    BY P!KImplies
  <1> QED
    BY <1>1, Zenon DEF K8s!AddrsOf, K8s!Mapped, K8s!OpenIsMapped, K8s!KeepsUp, K8s!CurrentOptions, P!K8s!AddrsOf,
           P!K8s!Mapped, P!K8s!OpenIsMapped, P!K8s!KeepsUp, P!K8s!CurrentOptions
-----------------------------------------------------------------------------
(* The pool of connections to etcd, and two subscribers of one key. *)
Watches == INSTANCE EtcdWatch_proofs WITH
               Addrs <- {"a", "b"}, ready <- pReady, view <- pView, faults <- pFaults,
               Subs <- {"s", "t"}, MaxEntries <- 1, MaxEvents <- 1, MaxBreaks <- 0, Cap <- 1, kRev <- sRev,
               made <- sMade, cancelled <- sCancelled, kFaults <- sFaults

(* The revisions of the suite are numbered. *)
LEMMA PoolSized == Watches!PoolSized
  BY SupportAssumption DEF Watches!PoolSized, SupportAssumption

(* A pool without connections satisfies its invariant. *)
LEMMA PoolBegins == ASSUME Pool!Init PROVE Watches!PoolInv
  <1>1. Watches!Conns!Init
    BY Zenon DEF Pool!Actors, Pool!Unknown, Pool!Init, Watches!Conns!Actors, Watches!Conns!Unknown,
           Watches!Conns!Init
  <1> QED
    BY <1>1, PoolSized, Watches!PoolStarts

(* Every step of the watcher, of AddOption and of Close keeps it. *)
LEMMA PoolGoesOn == ASSUME Watches!PoolInv, [Pool!Next]_poolVars PROVE Watches!PoolInv'
  <1>1. [Watches!Conns!Next]_(Watches!Conns!vars)
    BY ZenonT(60) DEF poolVars, Pool!Cardinality, Pool!IsFiniteSet, Watches!Conns!Cardinality, Watches!Conns!IsFiniteSet,
           Pool!Pool, Pool!Resolver, Pool!Actors, Pool!Unknown, Pool!watcher, Pool!conns, Pool!vars, Pool!AddrsOf,
           Pool!ConnectionsClosed, Pool!Fault, Pool!WatcherFree, Pool!syncEndpointConnMap, Pool!resetConnMapLocked,
           Pool!CloseConn, Pool!Change, Pool!getOrCreateWatcher, Pool!addListener, Pool!GetConn, Pool!Build,
           Pool!watchSnapshot, Pool!publish, Pool!consume, Pool!published, Pool!watchUpdate, Pool!run,
           Pool!AddOption, Pool!addOptionCollect, Pool!addOptionSync, Pool!close, Pool!closeConns, Pool!Closing,
           Pool!Watching, Pool!Adding, Pool!Next, Watches!Conns!Pool, Watches!Conns!Resolver, Watches!Conns!Actors,
           Watches!Conns!Unknown, Watches!Conns!watcher, Watches!Conns!conns, Watches!Conns!vars,
           Watches!Conns!AddrsOf, Watches!Conns!ConnectionsClosed, Watches!Conns!Fault, Watches!Conns!WatcherFree,
           Watches!Conns!syncEndpointConnMap, Watches!Conns!resetConnMapLocked, Watches!Conns!CloseConn,
           Watches!Conns!Change, Watches!Conns!getOrCreateWatcher, Watches!Conns!addListener, Watches!Conns!GetConn,
           Watches!Conns!Build, Watches!Conns!watchSnapshot, Watches!Conns!publish, Watches!Conns!consume,
           Watches!Conns!published, Watches!Conns!watchUpdate, Watches!Conns!run, Watches!Conns!AddOption,
           Watches!Conns!addOptionCollect, Watches!Conns!addOptionSync, Watches!Conns!close,
           Watches!Conns!closeConns, Watches!Conns!Closing, Watches!Conns!Watching, Watches!Conns!Adding,
           Watches!Conns!Next
  <1> QED
    BY <1>1, PoolSized, Watches!PoolNext, Watches!PoolStutters

(* etcd: GetConns hands out open connections with all the options, and none *)
(* is left behind.                                                          *)
LEMMA PoolHolds ==
    ASSUME Watches!PoolInv
    PROVE  Pool!NoClosedConn /\ Pool!NoLeak /\ Pool!ClosedForGood /\ Pool!CurrentOptions
  <1>1. /\ Watches!Conns!NoClosedConn /\ Watches!Conns!NoLeak
        /\ Watches!Conns!ClosedForGood /\ Watches!Conns!CurrentOptions
    BY Watches!PoolImplies
  <1> QED
    BY <1>1, Zenon DEF Pool!Actors, Pool!NoClosedConn, Pool!NoLeak, Pool!ClosedForGood, Pool!CurrentOptions,
           Watches!Conns!Actors, Watches!Conns!NoClosedConn, Watches!Conns!NoLeak, Watches!Conns!ClosedForGood,
           Watches!Conns!CurrentOptions

(* One entry of the map of a key. *)
LEMMA KeySized == Watches!KeySized
  BY DEF Watches!KeySized

(* A registry without watches satisfies the invariant of watch_key. *)
LEMMA SharedBegins == ASSUME WatchShared!Init PROVE Watches!KeyInv
  <1>1. Watches!Key!Init
    BY Zenon DEF WatchShared!Entries, WatchShared!None, WatchShared!Init, Watches!Key!Entries, Watches!Key!None,
           Watches!Key!Init
  <1> QED
    BY <1>1, KeySized, Watches!KeyStarts

(* Every event, push, and call of the two subscribers keeps it. *)
LEMMA SharedGoesOn == ASSUME Watches!KeyInv, [WatchShared!Next]_watchVars PROVE Watches!KeyInv'
  <1>1. [Watches!Key!Next]_(Watches!Key!vars)
    BY ZenonT(60) DEF watchVars, WatchShared!Cardinality, WatchShared!IsFiniteSet, Watches!Key!Cardinality,
           Watches!Key!IsFiniteSet, WatchShared!Entries, WatchShared!None, WatchShared!vars, WatchShared!SetSub,
           WatchShared!Done, WatchShared!Drop, WatchShared!Event, WatchShared!CallerCancels,
           WatchShared!getOrCreateWatchKeyEntry, WatchShared!addSubscriber, WatchShared!WatchKey,
           WatchShared!removeSubscriber, WatchShared!removeWatchKeySubscriber, WatchShared!stopKeyWatches,
           WatchShared!SetRun, WatchShared!runWatch, WatchShared!runReconnect, WatchShared!broadcast,
           WatchShared!push, WatchShared!pushDrop, WatchShared!pushed, WatchShared!closeSubscribers,
           WatchShared!removeWatchKeyEntry, WatchShared!Calling, WatchShared!Running, WatchShared!Next,
           Watches!Key!Entries, Watches!Key!None, Watches!Key!vars, Watches!Key!SetSub, Watches!Key!Done,
           Watches!Key!Drop, Watches!Key!Event, Watches!Key!CallerCancels, Watches!Key!getOrCreateWatchKeyEntry,
           Watches!Key!addSubscriber, Watches!Key!WatchKey, Watches!Key!removeSubscriber,
           Watches!Key!removeWatchKeySubscriber, Watches!Key!stopKeyWatches, Watches!Key!SetRun,
           Watches!Key!runWatch, Watches!Key!runReconnect, Watches!Key!broadcast, Watches!Key!push,
           Watches!Key!pushDrop, Watches!Key!pushed, Watches!Key!closeSubscribers, Watches!Key!removeWatchKeyEntry,
           Watches!Key!Calling, Watches!Key!Running, Watches!Key!Next
  <1> QED
    BY <1>1, KeySized, Watches!KeyNext, Watches!KeyStutters

(* etcd: no goroutine outlives its entry and the last of its subscribers. *)
LEMMA SharedHolds == ASSUME Watches!KeyInv PROVE WatchShared!NoOrphan
  <1>1. Watches!Key!NoOrphan
    BY Watches!KeyImplies
  <1> QED
    BY <1>1, Zenon DEF WatchShared!NoOrphan, Watches!Key!NoOrphan
-----------------------------------------------------------------------------
(* The parts again, with uploads that overlap and fail, and names of images *)
(* that are used again.                                                     *)
Q == INSTANCE SupportParts_proofs WITH
         Versions <- {509, 601, 602, 610, 700}, Topics <- {"t", "u"}, Known <- {"t"}, Raw <- {0, 6}, MaxLen <- 3,
         RegCallers <- {"c", "d"}, RegServices <- {{"m", "n"}},
         AloneCallers <- {"c", "d"}, AloneServices <- {{"m", "n"}, {"o"}}, Keys <- {"k"}, Values <- {"v"},
         UpContents <- {"a", "b"}, Large <- {"b"}, Uploads <- {"u"}, UpCalls <- {"c", "d"}, Copies <- {"k", "l"},
         Faults <- TRUE, None <- "none", ImNames <- {"n"}, ImContents <- {"n", "m"},
         Sizes <- {"s"}, ImCallers <- {"p"}, Addressed <- FALSE, Users <- {"u", "v"},
         KServices <- {"s", "t"}, WatchNames <- {"s"}, KAddrs <- {"a", "b"}

(* None is no content of the suite, when calls fail either. *)
LEMMA UploadFaultySized == Q!UploadSized
  BY DEF Q!UploadSized

(* A store without uploads satisfies their invariant, when calls fail too. *)
LEMMA UploadFaultyBegins == ASSUME UploadFaulty!Init PROVE Q!UploadInv
  <1>1. Q!Up!Init
    BY Zenon DEF UploadFaulty!HashPath, UploadFaulty!TempPath, UploadFaulty!CopyPath, UploadFaulty!Keys,
           UploadFaulty!Idle, UploadFaulty!Init, Q!Up!HashPath, Q!Up!TempPath, Q!Up!CopyPath, Q!Up!Keys,
           Q!Up!Idle, Q!Up!Init
  <1> QED
    BY <1>1, UploadFaultySized, Q!UploadStarts

(* Every step of CompleteUpload keeps the invariant, when calls overlap and *)
(* fail too.                                                                *)
LEMMA UploadFaultyGoesOn == ASSUME Q!UploadInv, [UploadFaulty!Next]_uploadVars PROVE Q!UploadInv'
  <1>1. [Q!Up!Next]_(Q!Up!vars)
    BY ZenonT(60) DEF uploadVars, UploadFaulty!HashPath, UploadFaulty!TempPath, UploadFaulty!CopyPath,
           UploadFaulty!Keys, UploadFaulty!vars, UploadFaulty!Idle, UploadFaulty!StatObject,
           UploadFaulty!Cached, UploadFaulty!Expire, UploadFaulty!InitiateUpload, UploadFaulty!ClientPut,
           UploadFaulty!ClientParts, UploadFaulty!At, UploadFaulty!Set, UploadFaulty!Goto,
           UploadFaulty!Complete, UploadFaulty!CompleteMultipart, UploadFaulty!StatTemp, UploadFaulty!Copy,
           UploadFaulty!Publish, UploadFaulty!Uncache, UploadFaulty!Clean, UploadFaulty!Return,
           UploadFaulty!DeleteObject, UploadFaulty!Client, UploadFaulty!Step, UploadFaulty!Next, Q!Up!HashPath,
           Q!Up!TempPath, Q!Up!CopyPath, Q!Up!Keys, Q!Up!vars, Q!Up!Idle, Q!Up!StatObject, Q!Up!Cached,
           Q!Up!Expire, Q!Up!InitiateUpload, Q!Up!ClientPut, Q!Up!ClientParts, Q!Up!At, Q!Up!Set, Q!Up!Goto,
           Q!Up!Complete, Q!Up!CompleteMultipart, Q!Up!StatTemp, Q!Up!Copy, Q!Up!Publish, Q!Up!Uncache,
           Q!Up!Clean, Q!Up!Return, Q!Up!DeleteObject, Q!Up!Client, Q!Up!Step, Q!Up!Next
  <1> QED
    BY <1>1, UploadFaultySized, Q!UploadNext

(* s3/cont: a store that fails does not spoil what is stored under a hash. *)
LEMMA UploadFaultyHolds ==
    ASSUME Q!UploadInv
    PROVE  UploadFaulty!HashIntegrity /\ UploadFaulty!SuccessIsStored
  BY UploadFaultySized, Q!UploadImplies, Zenon
     DEF UploadFaulty!HashPath, UploadFaulty!HashIntegrity, UploadFaulty!SuccessIsStored, Q!Up!HashPath,
         Q!Up!HashIntegrity, Q!Up!SuccessIsStored

(* One caller, and names that are used again. *)
LEMMA ImageAnewSized == Q!ImageSized
  BY DEF Q!ImageSized

(* No thumbnails: the invariant of the images holds where names are used    *)
(* again too.                                                               *)
LEMMA ImageAnewBegins == ASSUME ImageAnew!Init PROVE Q!ImageInv
  <1>1. Q!Img!Init
    BY Zenon DEF ImageAnew!Idle, ImageAnew!Init, Q!Img!Idle, Q!Img!Init
  <1> QED
    BY <1>1, ImageAnewSized, Q!ImageStarts

(* Every step of a thumbnail access or of DeleteObject keeps the invariant  *)
(* where names are used again.                                              *)
LEMMA ImageAnewGoesOn == ASSUME Q!ImageInv, [ImageAnew!Next]_imageVars PROVE Q!ImageInv'
  <1>1. [Q!Img!Next]_(Q!Img!vars)
    BY Zenon DEF imageVars, ImageAnew!vars, ImageAnew!MayHold, ImageAnew!Idle, ImageAnew!At, ImageAnew!Set,
           ImageAnew!CompleteMultipartUpload, ImageAnew!CopyObject, ImageAnew!getObjectImageInfo,
           ImageAnew!AccessURL, ImageAnew!MakeThumbnail, ImageAnew!CacheKey, ImageAnew!DeleteObject,
           ImageAnew!Clear, ImageAnew!RemoveObject, ImageAnew!Next, Q!Img!vars, Q!Img!MayHold, Q!Img!Idle,
           Q!Img!At, Q!Img!Set, Q!Img!CompleteMultipartUpload, Q!Img!CopyObject, Q!Img!getObjectImageInfo,
           Q!Img!AccessURL, Q!Img!MakeThumbnail, Q!Img!CacheKey, Q!Img!DeleteObject, Q!Img!Clear,
           Q!Img!RemoveObject, Q!Img!Next
  <1> QED
    BY <1>1, ImageAnewSized, Q!ImageNext

(* s3/minio: a thumbnail is of the image whose tag it has, though names are *)
(* used again.                                                              *)
LEMMA ImageAnewHolds ==
    ASSUME Q!ImageInv
    PROVE  ImageAnew!ThumbOfTag
  BY ImageAnewSized, Q!ImageImplies, Zenon
     DEF ImageAnew!ThumbOfTag, Q!Img!ThumbOfTag

-----------------------------------------------------------------------------
(* While a part runs its invariant holds. *)
SupportInv ==
    /\ part = "builder" => P!BuilderInv
    /\ part = "methods" => P!RegInv
    /\ part = "standalone" => P!AloneInv
    /\ part = "upload" => P!UploadInv
    /\ part = "upload faulty" => Q!UploadInv
    /\ part = "image" => P!ImageInv
    /\ part = "image anew" => Q!ImageInv
    /\ part = "pool" => Watches!PoolInv
    /\ part = "watch shared" => Watches!KeyInv
    /\ part = "reconnect" => P!RecInv
    /\ part = "k8s" => P!KInv

(* A behaviour begins with the first states of its part. *)
LEMMA SupportBegins == ASSUME Init PROVE SupportInv
  <1>1. /\ Builder!Init /\ Reg!Init /\ Alone!Init /\ Pool!Init /\ WatchShared!Init /\ Reconnect!Init /\ K8s!Init
        /\ IF part = "upload faulty" THEN UploadFaulty!Init ELSE Uploading!Init
        /\ IF part = "image anew" THEN ImageAnew!Init ELSE Image!Init
    BY Zenon DEF Init
  <1>2. /\ part = "upload" => Uploading!Init
        /\ part = "upload faulty" => UploadFaulty!Init
        /\ part = "image" => Image!Init
        /\ part = "image anew" => ImageAnew!Init
    BY <1>1
  <1> QED
    BY <1>1, <1>2, BuilderBegins, RegBegins, AloneBegins, UploadingBegins, UploadFaultyBegins, ImageBegins,
       ImageAnewBegins, PoolBegins, SharedBegins, ReconnectBegins, K8sBegins, Zenon DEF SupportInv

(* A step of the suite is one of its part. *)
LEMMA SupportGoesOn == ASSUME SupportInv, [Next]_vars PROVE SupportInv'
  <1>1. part' = part
    BY Zenon DEF Next, vars
  <1>2. CASE part = "builder"
    <2>1. [Builder!Next]_builderVars
      BY <1>2, Zenon DEF Next, vars
    <2> QED
      BY <1>1, <1>2, <2>1, BuilderGoesOn, Zenon DEF SupportInv
  <1>3. CASE part = "methods"
    <2>1. [Reg!Next]_regVars
      BY <1>3, Zenon DEF Next, vars
    <2> QED
      BY <1>1, <1>3, <2>1, RegGoesOn, Zenon DEF SupportInv
  <1>4. CASE part = "standalone"
    <2>1. [Alone!Next]_aloneVars
      BY <1>4, Zenon DEF Next, vars
    <2> QED
      BY <1>1, <1>4, <2>1, AloneGoesOn, Zenon DEF SupportInv
  <1>5. CASE part = "upload"
    <2>1. [Uploading!Next]_uploadVars
      BY <1>5, Zenon DEF Next, vars
    <2> QED
      BY <1>1, <1>5, <2>1, UploadingGoesOn, Zenon DEF SupportInv
  <1>6. CASE part = "upload faulty"
    <2>1. [UploadFaulty!Next]_uploadVars
      BY <1>6, Zenon DEF Next, vars
    <2> QED
      BY <1>1, <1>6, <2>1, UploadFaultyGoesOn, Zenon DEF SupportInv
  <1>7. CASE part = "image"
    <2>1. [Image!Next]_imageVars
      BY <1>7, Zenon DEF Next, vars
    <2> QED
      BY <1>1, <1>7, <2>1, ImageGoesOn, Zenon DEF SupportInv
  <1>8. CASE part = "image anew"
    <2>1. [ImageAnew!Next]_imageVars
      BY <1>8, Zenon DEF Next, vars
    <2> QED
      BY <1>1, <1>8, <2>1, ImageAnewGoesOn, Zenon DEF SupportInv
  <1>9. CASE part = "pool"
    <2>1. [Pool!Next]_poolVars
      BY <1>9, Zenon DEF Next, vars
    <2> QED
      BY <1>1, <1>9, <2>1, PoolGoesOn, Zenon DEF SupportInv
  <1>10. CASE part = "watch shared"
    <2>1. [WatchShared!Next]_watchVars
      BY <1>10, Zenon DEF Next, vars
    <2> QED
      BY <1>1, <1>10, <2>1, SharedGoesOn, Zenon DEF SupportInv
  <1>11. CASE part = "reconnect"
    <2>1. [Reconnect!Next]_reconnectVars
      BY <1>11, Zenon DEF Next, vars
    <2> QED
      BY <1>1, <1>11, <2>1, ReconnectGoesOn, Zenon DEF SupportInv
  <1>12. CASE part = "k8s"
    <2>1. [K8s!Next]_k8sVars
      BY <1>12, Zenon DEF Next, vars
    <2> QED
      BY <1>1, <1>12, <2>1, K8sGoesOn, Zenon DEF SupportInv
  <1> QED
    BY <1>1, <1>2, <1>3, <1>4, <1>5, <1>6, <1>7, <1>8, <1>9, <1>10, <1>11, <1>12, Zenon DEF SupportInv

(* What the invariants of the parts say of the properties of the suite. *)
LEMMA SupportHolds == ASSUME SupportInv PROVE BuiltIsFit /\ NoStranded /\ StoredIsSound /\ ConnsOwned
  BY BuilderHolds, RegHolds, AloneHolds, UploadingHolds, UploadFaultyHolds, ImageHolds, ImageAnewHolds, PoolHolds,
     SharedHolds, ReconnectHolds, K8sHolds, Zenon
     DEF SupportInv, BuiltIsFit, NoStranded, StoredIsSound, ConnsOwned

(* The invariant of the suite: whatever the bounds, each part keeps its     *)
(* own.                                                                     *)
THEOREM SupportInvariant == Spec => []SupportInv
  BY SupportBegins, SupportGoesOn, PTL DEF Spec

(* What the redismq Builder hands out is fit to use, through outages and    *)
(* upgrades of the server, and for any number of entries.                   *)
THEOREM SuiteBuilt == Spec => []BuiltIsFit
  BY SupportInvariant, SupportHolds, PTL

(* Invoke is not stranded: a caller waits only on a channel that            *)
(* registration or close will still close, and a woken one finds its        *)
(* method, for any number of calls.                                         *)
THEOREM SuiteServed == Spec => []NoStranded
  BY SupportInvariant, SupportHolds, PTL

(* What s3/cont and s3/minio store is sound: under a hash is its content,   *)
(* and thumbnails belong to their images, for any number of deletions.      *)
THEOREM SuiteStored == Spec => []StoredIsSound
  BY SupportInvariant, SupportHolds, PTL

(* Every connection and stream has an owner, for any number of revisions,   *)
(* options, streams and changes: the pool of etcd hands out what is open    *)
(* and leaves nothing behind when it closes, watches that fail together     *)
(* leave no stream, and Kubernetes' connections are those of its map.       *)
THEOREM SuiteConnsOwned == Spec => []ConnsOwned
  BY SupportInvariant, SupportHolds, PTL
-----------------------------------------------------------------------------
(* The task queues of one process and those in Redis, with callers that     *)
(* overlap.                                                                 *)
Queues == INSTANCE TaskQueues_proofs WITH
              Callers <- {"c", "d"}, Keys <- {"a", "b"}, Data <- {"x", "y"}, MaxGlobal <- 1, MaxProcessing <- 1,
              MaxWaiting <- 1, Strategy <- "Least", Serial <- FALSE,
              MaxKeys <- 2, RedisOps <- {"Insert", "InsertByKey", "Delete"}, FaultKinds <- {"crash"},
              MaxMade <- 2, TaskOps <- {"InsertByKey", "Insert", "Delete", "Transform", "AutoTransform"}

(* The limits of the suite are numbers, and nobody is not a caller. *)
LEMMA TaskSharedSized == Queues!TaskSized
  BY DEF Queues!TaskSized, Queues!Task!NoCaller

(* Empty queues satisfy their invariant. *)
LEMMA TaskSharedBegins == ASSUME TaskShared!Init PROVE Queues!TaskInv
  <1>1. Queues!Task!Init
    BY Zenon DEF TaskShared!Init, TaskShared!NoQueue, TaskShared!NoCaller, TaskShared!NoKey, TaskShared!NoData,
           TaskShared!Made, Queues!Task!Init, Queues!Task!NoQueue, Queues!Task!NoCaller, Queues!Task!NoKey,
           Queues!Task!NoData, Queues!Task!Made
  <1> QED
    BY <1>1, TaskSharedSized, Queues!TaskStarts

(* Every step of the manager's operations keeps it. *)
LEMMA TaskSharedGoesOn == ASSUME Queues!TaskInv, [TaskShared!Next]_taskVars PROVE Queues!TaskInv'
  <1>1. [Queues!Task!Next]_(Queues!Task!vars)
    BY ZenonT(60) DEF taskVars, TaskShared!local, TaskShared!keyed, TaskShared!items, TaskShared!history,
           TaskShared!vars, TaskShared!NoQueue, TaskShared!NoCaller, TaskShared!NoKey, TaskShared!NoData,
           TaskShared!Made, TaskShared!Idle, TaskShared!Locked, TaskShared!Fresh, TaskShared!Return,
           TaskShared!getOrCreateTaskQueues, TaskShared!Present, TaskShared!RoundRobinTask, TaskShared!LeastTask,
           TaskShared!assignKey, TaskShared!pushToProcess, TaskShared!AddKey, TaskShared!pushToGlobal,
           TaskShared!Insert, TaskShared!InsertRoom, TaskShared!InsertPush, TaskShared!InsertByKey,
           TaskShared!InsertByKeyPush, TaskShared!Delete, TaskShared!DeleteRemove, TaskShared!DeleteWaiting,
           TaskShared!DeletePop, TaskShared!DeleteGlobal, TaskShared!DeletePush, TaskShared!DeleteKey,
           TaskShared!TransformStart, TaskShared!TransformProcessingData, TaskShared!TransformPush,
           TaskShared!AutoTransformProcessingData, TaskShared!AutoTransform, TaskShared!CallerStep, TaskShared!Call,
           TaskShared!Next, TaskShared!ToSet, TaskShared!B!Full, TaskShared!B!Push, TaskShared!B!ForcePush,
           TaskShared!B!Pop, TaskShared!B!Contains, TaskShared!B!Peek, TaskShared!B!Remove, TaskShared!B!S!RemoveAt,
           Queues!Task!local, Queues!Task!keyed, Queues!Task!items, Queues!Task!history, Queues!Task!vars,
           Queues!Task!NoQueue, Queues!Task!NoCaller, Queues!Task!NoKey, Queues!Task!NoData, Queues!Task!Made,
           Queues!Task!Idle, Queues!Task!Locked, Queues!Task!Fresh, Queues!Task!Return,
           Queues!Task!getOrCreateTaskQueues, Queues!Task!Present, Queues!Task!RoundRobinTask,
           Queues!Task!LeastTask, Queues!Task!assignKey, Queues!Task!pushToProcess, Queues!Task!AddKey,
           Queues!Task!pushToGlobal, Queues!Task!Insert, Queues!Task!InsertRoom, Queues!Task!InsertPush,
           Queues!Task!InsertByKey, Queues!Task!InsertByKeyPush, Queues!Task!Delete, Queues!Task!DeleteRemove,
           Queues!Task!DeleteWaiting, Queues!Task!DeletePop, Queues!Task!DeleteGlobal, Queues!Task!DeletePush,
           Queues!Task!DeleteKey, Queues!Task!TransformStart, Queues!Task!TransformProcessingData,
           Queues!Task!TransformPush, Queues!Task!AutoTransformProcessingData, Queues!Task!AutoTransform,
           Queues!Task!CallerStep, Queues!Task!Call, Queues!Task!Next, Queues!Task!ToSet, Queues!Task!B!Full,
           Queues!Task!B!Push, Queues!Task!B!ForcePush, Queues!Task!B!Pop, Queues!Task!B!Contains,
           Queues!Task!B!Peek, Queues!Task!B!Remove, Queues!Task!B!S!RemoveAt
  <1> QED
    BY <1>1, Queues!TaskNext

(* standalonetask: a task is in one place, and the queues are within their  *)
(* limits.                                                                  *)
LEMMA TaskSharedHolds == ASSUME Queues!TaskInv PROVE TaskShared!NoDuplicate /\ TaskShared!WithinLimits
  <1>1. Queues!Task!NoDuplicate /\ Queues!Task!WithinLimits
    BY Queues!TaskImplies
  <1> QED
    BY <1>1, Zenon DEF TaskShared!NoDuplicate, TaskShared!WithinLimits, TaskShared!Places, TaskShared!Made,
           TaskShared!NoQueue, TaskShared!Cardinality, TaskShared!IsFiniteSet, Queues!Task!NoDuplicate,
           Queues!Task!WithinLimits, Queues!Task!Places, Queues!Task!Made, Queues!Task!NoQueue,
           Queues!Task!Cardinality, Queues!Task!IsFiniteSet

(* The bounds of the suite are numbers, and it loses no reply. *)
LEMMA RedisSharedSized == Queues!RedisSized /\ Queues!RedisSafe
  <1>1. Queues!RedisSized
    BY SupportAssumption DEF SupportAssumption, Queues!RedisSized
  <1>2. Queues!RedisSafe
    BY DEF Queues!RedisSafe
  <1> QED
    BY <1>1, <1>2

(* Empty lists satisfy their invariant. *)
LEMMA RedisSharedBegins == ASSUME RedisShared!Init PROVE Queues!RedisInv
  <1>1. Queues!Redis!Init
    BY Zenon DEF RedisShared!Init, RedisShared!Global, RedisShared!Processing, RedisShared!Waiting,
           RedisShared!Lists, RedisShared!Idle, Queues!Redis!Init, Queues!Redis!Global, Queues!Redis!Processing,
           Queues!Redis!Waiting, Queues!Redis!Lists, Queues!Redis!Idle
  <1> QED
    BY <1>1, RedisSharedSized, Queues!RedisStarts

(* Every command and script keeps it, and so does a crash. *)
LEMMA RedisSharedGoesOn == ASSUME Queues!RedisInv, [RedisShared!Next]_redisVars PROVE Queues!RedisInv'
  <1>1. [Queues!Redis!Next]_(Queues!Redis!vars)
    BY ZenonT(60) DEF redisVars, RedisShared!Global, RedisShared!Processing, RedisShared!Waiting, RedisShared!Lists,
           RedisShared!Capacity, RedisShared!redis, RedisShared!history, RedisShared!vars, RedisShared!Idle,
           RedisShared!Dead, RedisShared!Goto, RedisShared!Return, RedisShared!Begin, RedisShared!Fault,
           RedisShared!Fresh, RedisShared!RoundRobinTask, RedisShared!LeastTask, RedisShared!assignStrategy,
           RedisShared!AddKeyScript, RedisShared!AddKey, RedisShared!Insert, RedisShared!InsertByKey,
           RedisShared!NextList, RedisShared!pushLLen, RedisShared!pushLPush, RedisShared!Delete,
           RedisShared!NotInList, RedisShared!removeLRange, RedisShared!Removed, RedisShared!removeScript,
           RedisShared!backfillLLen, RedisShared!backfillRPop, RedisShared!backfillLPush, RedisShared!backfillRPush,
           RedisShared!TransformProcessingData, RedisShared!AutoTransformProcessingData, RedisShared!forcePush,
           RedisShared!forcePushBack, RedisShared!LRem, RedisShared!DeleteKey, RedisShared!DeleteKeyDel,
           RedisShared!Crash, RedisShared!Next, RedisShared!ToSet, RedisShared!Min, RedisShared!Front,
           RedisShared!Last, RedisShared!RemoveAt, RedisShared!Cardinality, RedisShared!IsFiniteSet,
           Queues!Redis!Global, Queues!Redis!Processing, Queues!Redis!Waiting, Queues!Redis!Lists,
           Queues!Redis!Capacity, Queues!Redis!redis, Queues!Redis!history, Queues!Redis!vars, Queues!Redis!Idle,
           Queues!Redis!Dead, Queues!Redis!Goto, Queues!Redis!Return, Queues!Redis!Begin, Queues!Redis!Fault,
           Queues!Redis!Fresh, Queues!Redis!RoundRobinTask, Queues!Redis!LeastTask, Queues!Redis!assignStrategy,
           Queues!Redis!AddKeyScript, Queues!Redis!AddKey, Queues!Redis!Insert, Queues!Redis!InsertByKey,
           Queues!Redis!NextList, Queues!Redis!pushLLen, Queues!Redis!pushLPush, Queues!Redis!Delete,
           Queues!Redis!NotInList, Queues!Redis!removeLRange, Queues!Redis!Removed, Queues!Redis!removeScript,
           Queues!Redis!backfillLLen, Queues!Redis!backfillRPop, Queues!Redis!backfillLPush,
           Queues!Redis!backfillRPush, Queues!Redis!TransformProcessingData,
           Queues!Redis!AutoTransformProcessingData, Queues!Redis!forcePush, Queues!Redis!forcePushBack,
           Queues!Redis!LRem, Queues!Redis!DeleteKey, Queues!Redis!DeleteKeyDel, Queues!Redis!Crash,
           Queues!Redis!Next, Queues!Redis!ToSet, Queues!Redis!Min, Queues!Redis!Front, Queues!Redis!Last,
           Queues!Redis!RemoveAt, Queues!Redis!Cardinality, Queues!Redis!IsFiniteSet
  <1> QED
    BY <1>1, Queues!RedisNext

(* redistask: a task is in one list or one hand. *)
LEMMA RedisSharedHolds == ASSUME Queues!RedisInv PROVE RedisShared!NoDuplicate
  <1>1. Queues!Redis!NoDuplicate
    BY RedisSharedSized, Queues!RedisImplies
  <1> QED
    BY <1>1, Zenon DEF RedisShared!NoDuplicate, RedisShared!Moving, RedisShared!Carried, RedisShared!Global,
           RedisShared!Processing, RedisShared!Waiting, RedisShared!Lists, RedisShared!Cardinality,
           RedisShared!IsFiniteSet, Queues!Redis!NoDuplicate, Queues!Redis!Moving, Queues!Redis!Carried,
           Queues!Redis!Global, Queues!Redis!Processing, Queues!Redis!Waiting, Queues!Redis!Lists,
           Queues!Redis!Cardinality, Queues!Redis!IsFiniteSet

(* While callers share the queues their invariant holds. *)
SharedInv ==
    /\ part = "task shared" => Queues!TaskInv
    /\ part = "redis shared" => Queues!RedisInv

(* A behaviour begins with empty queues. *)
LEMMA QueuesBegin == ASSUME Init PROVE SharedInv
  <1>1. /\ IF part = "task shared" THEN TaskShared!Init ELSE Task!Init
        /\ IF part \in {"redis shared", "redis faulty"} THEN RedisShared!Init ELSE Redis!Init
    BY Zenon DEF Init
  <1>2. /\ part = "task shared" => TaskShared!Init
        /\ part = "redis shared" => RedisShared!Init
    BY <1>1
  <1> QED
    BY <1>2, TaskSharedBegins, RedisSharedBegins, Zenon DEF SharedInv

(* A step of the suite is one of its part. *)
LEMMA QueuesGoOn == ASSUME SharedInv, [Next]_vars PROVE SharedInv'
  <1>1. part' = part
    BY Zenon DEF Next, vars
  <1>2. CASE part = "task shared"
    <2>1. [TaskShared!Next]_taskVars
      BY <1>2, Zenon DEF Next, vars
    <2> QED
      BY <1>1, <1>2, <2>1, TaskSharedGoesOn, Zenon DEF SharedInv
  <1>3. CASE part = "redis shared"
    <2>1. [RedisShared!Next]_redisVars
      BY <1>3, Zenon DEF Next, vars
    <2> QED
      BY <1>1, <1>3, <2>1, RedisSharedGoesOn, Zenon DEF SharedInv
  <1> QED
    BY <1>1, <1>2, <1>3, Zenon DEF SharedInv

(* No interleaving of calls puts a task of standalonetask into two places   *)
(* or fills a queue beyond its limit, and none, nor any number of crashes,  *)
(* duplicates a task of redistask.                                          *)
THEOREM SuiteKeepsOne == Spec => []NoDuplicate
  <1>1. Spec => []SharedInv
    BY QueuesBegin, QueuesGoOn, PTL DEF Spec
  <1>2. SharedInv => NoDuplicate
    BY TaskSharedHolds, RedisSharedHolds, Zenon DEF SharedInv, NoDuplicate
  <1> QED
    BY <1>1, <1>2, PTL
=============================================================================
