----------------------- MODULE MCMarketDataIngestion -----------------------
EXTENDS MarketDataIngestion
=============================================================================
