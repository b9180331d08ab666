---------------------------- MODULE MCAwsFleetProv ----------------------------
EXTENDS AwsFleetProv
=============================================================================
