----------------------------- MODULE MCCapture -----------------------------
(***************************************************************************)
(* An instance of Capture for TLC: a source that is long enough, one that  *)
(* ends soon after the timestamp (two frames, or one when sped up), and    *)
(* one that ends before it.                                                *)
(***************************************************************************)
EXTENDS Capture

OneAsk == {[at |-> 10, span |-> 4]}

Track(type, codec, transfer, dovi, profile, default) ==
  [type |-> type, codec |-> codec, transfer |-> transfer, dovi |-> dovi,
   profile |-> profile, default |-> default]
Film == << Track("video", TRUE, "smpte2084", TRUE, "", TRUE),
           Track("audio", TRUE, "", FALSE, "", TRUE),
           Track("video", TRUE, "", FALSE, "", FALSE),
           Track("audio", TRUE, "", FALSE, "Atmos", FALSE) >>
Broadcast == << Track("audio", TRUE, "", FALSE, "DTS:X", TRUE),
                Track("video", FALSE, "arib-std-b67", FALSE, "", TRUE) >>
SomeSources == {[length |-> 100, streams |-> Film],
                [length |-> 12, streams |-> Broadcast],
                [length |-> 5, streams |-> Broadcast]}

SomeServers == {[kind |-> "plex", mapped |-> FALSE],
                [kind |-> "kodi", mapped |-> TRUE],
                [kind |-> "kodi", mapped |-> FALSE],
                [kind |-> "jellyfin", mapped |-> FALSE],
                [kind |-> "local", mapped |-> TRUE]}

SomeAnswers ==
  {a \in [lookup: BOOLEAN, head: {"served", "refused", "unknown"},
          stream: BOOLEAN, disk: BOOLEAN] :
     /\ a.head = "refused" => ~a.stream
     /\ ~a.lookup => a.head = "unknown"}
=============================================================================
