------------------------------ MODULE MCWxBatch ------------------------------
EXTENDS WxBatch, TLC

CONSTANTS a1, s1, s2

MCAttempts == {a1, s1, s2}
MCStuck == {s1, s2}
=============================================================================
