---------------------------- MODULE MCPipeline ----------------------------
(***************************************************************************)
(* Small instances of Pipeline for TLC: a log of a few lines of different  *)
(* sizes, one of them blank, a channel of one frame, a rollover at two.    *)
(***************************************************************************)
EXTENDS Pipeline

\* A line, a blank line and two shorter lines, which together can outgrow the
\* first two after a rotation.
FourLines == <<3, 1, 2, 2>>
\* Lines of different sizes.
ThreeLines == <<2, 4, 2>>
===========================================================================
