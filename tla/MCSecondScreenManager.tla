------------------------ MODULE MCSecondScreenManager ------------------------
EXTENDS SecondScreenManager

MCSecondary == {1, 2}
MCModes == {"60Hz", "120Hz"}
MCRates == {60, 120}
=============================================================================
