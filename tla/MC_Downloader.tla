---------------------------- MODULE MC_Downloader ---------------------------
(* Small instances of DownloaderSafety for TLC.                            *)
EXTENDS DownloaderSafety

(* An image of two usable variants, shown in two Sets, and a video.        *)
TwoKinds    == <<"image", "video">>
TwoVariants == <<<<"usable", "empty", "usable">>, <<"usable", "invalid">>>>
TwoPlaces   == <<2, 1>>

OneVideo == <<"video">>
OneUsable == <<<<"usable">>>>
OnePlace == <<1>>

(* Every content is longer than what is sniffed.                           *)
ThreeBlocks == [c \in Contents |-> 3]

=============================================================================
