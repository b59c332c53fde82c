SPECIFICATION FairSpec
CONSTANT MaxDisturbances = 3
INVARIANTS TypeOK
PROPERTIES ImplementsTrustRoot CertificatesKept GeneratedServes
