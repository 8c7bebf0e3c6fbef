---------------------------- MODULE MCJsAdapters ----------------------------
(* Pairs of adapters of a server and of a page, for TLC. *)
EXTENDS JsAdapters

Pairs == {<<"MixpanelNode", "AmplitudeNode">>, <<"SegmentNode", "MixpanelNode">>,
          <<"PostHogWeb", "SegmentWeb">>}
=============================================================================
