----------------------------- MODULE MCCamICGame ----------------------------
EXTENDS CamICGame, TLC

\* Moves that leave the area on one side or on both, a move too small to count, no result.
MCDisplacements == { <<5, 0>>, <<-5, 3>>, <<1, 1>>, NaN }
MCShifts == { <<0, 0>>, <<7, 0>> }
=============================================================================
