----------------------------- MODULE PacketPath -----------------------------
(***************************************************************************)
(* What a session does with the packets of both channels: control packets  *)
(* are wrapped and unwrapped (module ControlWrap), data packets are opened *)
(* behind a window of their own (module ReplayWindow), sealed and          *)
(* delivered (module DataPath).  The three share no variable.              *)
(***************************************************************************)
EXTENDS DataPath

CONSTANTS windowSize, MaxPID, Wrappers, Unwrappers,
          WordBits, Size, MaxDataPID, Openers

ASSUME ControlWrapAssumption ==
  windowSize \in Nat \ {0} /\ MaxPID \in Nat /\ Wrappers \cap Unwrappers = {}

ASSUME DataWindowAssumption ==
  /\ WordBits \in Nat \ {0} /\ Size \in Nat \ {0} /\ MaxDataPID \in Nat
  /\ IsFiniteSet(Openers)

VARIABLES
  wrapPID, trailer, wrap, wire, highest, bitmap, unwrap, unwrapped,
  dataHighest, dataBitmap, opener, opened

controlVars == <<wrapPID, trailer, wrap, wire, highest, bitmap, unwrap, unwrapped>>
dataVars == <<dataHighest, dataBitmap, opener, opened>>

Control == INSTANCE ControlWrap WITH sendPID <- wrapPID
Data == INSTANCE ReplayWindow
        WITH MaxPID <- MaxDataPID, highest <- dataHighest, bitmap <- dataBitmap

-----------------------------------------------------------------------------
(* The properties of modules ControlWrap and ReplayWindow, under names of  *)
(* this one.                                                               *)

(* Whatever the writeLoops do at the same time, no two control packets     *)
(* carry the same packet-id, and at most one carries the trailer (v1.go:   *)
(* Wrap, firstWrapTrailer).                                                *)
WrapsDistinct == Control!WrapsDistinct

(* The control window implements counters with a horizon: no packet gets   *)
(* through Unwrap twice, and none that is too old (v1.go: pidWindow,       *)
(* Unwrap).                                                                *)
ImplementsSlidingWindow == Control!ImplementsSlidingWindow

(* The words of the data window's bitmap are the set of packets opened,    *)
(* whatever jumps moved it across word boundaries, and a forged packet     *)
(* leaves no trace in it (replay.go, slot.go: Open).                       *)
DataWindowExact == Data!WindowExact

(* The data window implements the same counters with a horizon as the      *)
(* control channel's (replay.go: Test, Accept).                            *)
DataImplementsSlidingWindow == Data!ImplementsSlidingWindow

=============================================================================
