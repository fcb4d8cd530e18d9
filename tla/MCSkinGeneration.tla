-------------------------- MODULE MCSkinGeneration --------------------------
(* SkinGeneration behind a one-joint skeleton, for TLC.                    *)
EXTENDS SkinGeneration

SmallSkeleton == <<257, 266, 0, 0, 0, 258>>
==============================================================================
