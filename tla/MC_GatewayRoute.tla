--------------------------- MODULE MC_GatewayRoute ---------------------------
(* Instance of GatewayRoute for TLC: a caller of the background tier polls    *)
(* the status of the training worker while a chat is served.                 *)
EXTENDS GatewayRoute

Lanes == {"llm", "multimodal", "aux", "embedding", "image", "art", "birefnet", "depth",
          "animation", "liveportrait", "motion", "threed", "tts", "stt", "training",
          "forecast", "h3"}
MCNeed == [l \in Lanes |-> IF l = "training" THEN Slots ELSE 1]
Polls == {[path |-> "training_status", method |-> "GET", cred |-> "secret",
           tier |-> "background", form |-> "", model |-> ""],
          [path |-> "chat", method |-> "POST", cred |-> "secret",
           tier |-> "paid", form |-> "", model |-> ""]}
=============================================================================
