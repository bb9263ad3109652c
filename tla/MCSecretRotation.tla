-------------------------- MODULE MCSecretRotation --------------------------
(* Instances of SecretRotation for TLC.                                    *)
EXTENDS SecretRotation

CONSTANTS r1, q1, q2, q3   \* model values: a rotator and requests

=============================================================================
