------------------------------ MODULE MCEcdsa -------------------------------
\* A curve of 4092 points over 2^12 - 5: four limbs of three bits, and like
\* the real prime 3 modulo 4; the generator's order is 31.
EXTENDS Ecdsa

Generator == <<2498, 2764>>
=============================================================================
