CONSTANT MaxRetries = 1
SPECIFICATION Spec
PROPERTY ResultsAreReported
