------------------------------- MODULE MCPreReg -------------------------------
(* PreReg for TLC.                                                         *)
EXTENDS PreReg

\* A rehash finds one of the blacklists gone, or all of them there.
MCConfigs == {{}, Black}

===============================================================================
